---- MODULE Spec2Model ----
(***************************************************************************)
(* Verification model of the finance-data-pipline core:                    *)
(*   - the quarter calendar (FinLabFactorFetcher.convert_quarter_to_dates  *)
(*     and convert_date_to_quarter),                                       *)
(*   - the cross-sectional ranker (FactorRanking.rank_stocks_by_factor),   *)
(*   - the weighted rank combiner (FactorRanking.calculate_weighted_rank), *)
(*   - the factor expander (FinLabFactorFetcher.extend_factor_data and     *)
(*     get_factor_data),                                                   *)
(*   - the retry helper (utils.retry.run_with_retry) and its callers       *)
(*     upload_file / download_file and load_to_bigquery,                   *)
(*   - the ETL script (scripts.run_etl_pipeline.main).                     *)
(*                                                                         *)
(* Python strings are modelled as sequences of one-character strings, so   *)
(* that split, int(), f-string formatting and strptime are computed the    *)
(* way the code computes them.  Ranks are floats in the code; pandas rank  *)
(* with its default method yields multiples of 1/2, so a rank r is held    *)
(* as the integer 2*r ("half units").  Weights are integers in a fixed     *)
(* unit, so that weighted sums are exact.                                  *)
(***************************************************************************)
EXTENDS Integers, Sequences, FiniteSets, TLC

VARIABLES
    qcOrigin,       \* "label" or "date": which kind of input the caller supplied
    qcLabel,        \* argument of the last convert_quarter_to_dates call
    qcWindow,       \* its outcome
    qcDate,         \* argument of the last convert_date_to_quarter call
    qcQuarter,      \* its outcome
    factor_df,      \* argument of rank_stocks_by_factor
    positive_corr,  \* its direction flag
    ranked,         \* its outcome
    other_df,       \* a second argument of rank_stocks_by_factor (same flag)
    other_ranked,   \* its outcome
    ranked_dfs,     \* argument of calculate_weighted_rank: list of rank tables
    weights,        \* argument of calculate_weighted_rank: list of weights
    cwr_corr,       \* argument of calculate_weighted_rank: direction flag
    cwr,            \* outcome of calculate_weighted_rank
    fx_factor,      \* argument of extend_factor_data: the factor table
    fx_days,        \* argument of extend_factor_data: trading_days
    fx_out,         \* its outcome
    fx_again,       \* outcome of extend_factor_data on that outcome and fx_days
    gf_raw,         \* the table the provider's deadline() returns
    gf_symbols,     \* argument of get_factor_data: stock_symbols
    gf_days,        \* argument of get_factor_data: trading_days, or None
    gf_out,         \* its outcome
    rtRetries,      \* argument of run_with_retry: retries
    rtPc,           \* position of the run_with_retry call
    rtAttempt,      \* its loop variable attempt
    rtTrace,        \* the action() and time.sleep() calls it has made, in order
    rtResult,       \* its outcome
    dlArgs,         \* run_with_retry's delay arguments and the attempt that failed
    dlDelay,        \* the duration it passes to time.sleep
    upOp,           \* "upload" or "download": which GCS helper is running
    upPc,           \* position of the upload_file / download_file call
    upLog,          \* the logger.error records it has written
    upResult,       \* its outcome
    etlArgs,        \* run_etl_pipeline.main: the resolved params
    etlPc,          \* position of main
    etlIdx,         \* index of the market-value date being processed
    etlLog,         \* the steps main has executed, in order, with their outcome
    etlResult,      \* outcome of main
    bqMode,         \* load_to_bigquery: if_exists
    bqPc,           \* position of the call
    bqStaging,      \* staging_table_ref is not None
    bqTrace,        \* the BigQuery operations made, in order, with their outcome
    bqPending,      \* the exception being propagated, if any
    bqResult,       \* outcome of load_to_bigquery
    cwr_scale,      \* the constant c of a second calculate_weighted_rank call
    cwr_scaled      \* outcome of that call, made with weights c * weights

qcVars == <<qcOrigin, qcLabel, qcWindow, qcDate, qcQuarter>>
rankVars == <<factor_df, positive_corr, ranked, other_df, other_ranked>>
cwrVars == <<ranked_dfs, weights, cwr_corr, cwr>>
fxVars == <<fx_factor, fx_days, fx_out, fx_again>>
gfVars == <<gf_raw, gf_symbols, gf_days, gf_out>>
rtVars == <<rtRetries, rtPc, rtAttempt, rtTrace, rtResult>>
dlVars == <<dlArgs, dlDelay>>
upVars == <<upOp, upPc, upLog, upResult>>
etlVars == <<etlArgs, etlPc, etlIdx, etlLog, etlResult>>
bqVars == <<bqMode, bqPc, bqStaging, bqTrace, bqPending, bqResult>>
scVars == <<cwr_scale, cwr_scaled>>
vars == <<qcVars, rankVars, cwrVars, fxVars, gfVars, rtVars, dlVars, upVars, etlVars, bqVars, scVars>>

(***************************************************************************)
(* Bounds                                                                  *)
(***************************************************************************)
BaseYear == 2023
YearSpan == 1
MaxRows == 3
MaxShared == 2
MaxOther == 1
MaxTables == 2

(***************************************************************************)
(* Python strings                                                          *)
(***************************************************************************)
Digits == <<"0", "1", "2", "3", "4", "5", "6", "7", "8", "9">>

IsDigit(c) == \E i \in 1..10 : Digits[i] = c

DigitVal(c) == (CHOOSE i \in 1..10 : Digits[i] = c) - 1

AllDigits(s) == \A i \in 1..Len(s) : IsDigit(s[i])

\* value of a digit string, most significant digit first
RECURSIVE DigitsVal(_)
DigitsVal(s) ==
    IF s = <<>> THEN 0
    ELSE 10 * DigitsVal(SubSeq(s, 1, Len(s) - 1)) + DigitVal(s[Len(s)])

\* str(n) / f"{n}" for n >= 0: decimal digits, no padding
RECURSIVE ToStr(_)
ToStr(n) ==
    IF n < 10 THEN <<Digits[n + 1]>>
    ELSE ToStr(n \div 10) \o <<Digits[(n % 10) + 1]>>

\* zero padding to a width, as in an ISO "YYYY-MM-DD" date string
RECURSIVE ZeroPad(_, _)
ZeroPad(s, w) == IF Len(s) >= w THEN s ELSE ZeroPad(<<"0">> \o s, w)

\* str.split(sep) for a one-character separator
RECURSIVE Split(_, _)
Split(s, sep) ==
    IF \A i \in 1..Len(s) : s[i] # sep THEN <<s>>
    ELSE LET k == CHOOSE i \in 1..Len(s) :
                      s[i] = sep /\ \A j \in 1..(i - 1) : s[j] # sep
         IN  <<SubSeq(s, 1, k - 1)>> \o Split(SubSeq(s, k + 1, Len(s)), sep)

\* int(s) over the alphabet of the model (digits, letters, "-"): a value or ValueError
IntOk(s) == s # <<>> /\ AllDigits(s)

Dash == <<"-">>

(***************************************************************************)
(* Quarter calendar                                                        *)
(***************************************************************************)
NoWindow == [st |-> "none", start |-> <<>>, end |-> <<>>]
WindowError == [st |-> "ValueError", start |-> <<>>, end |-> <<>>]
Window(s, e) == [st |-> "ok", start |-> s, end |-> e]

NoQuarter == [st |-> "none", label |-> <<>>]
QuarterError == [st |-> "ValueError", label |-> <<>>]
Quarter(l) == [st |-> "ok", label |-> l]

\* f"{year}-05-16": the year text as given, then the fixed month and day
DateText(yearText, md) == yearText \o Dash \o md

\* a variant whose Q2 window starts one day late
WindowBounds_late(qtr) ==
    CASE qtr = <<"Q", "1">> -> << <<"0","5","-","1","6">>, <<"0","8","-","1","4">> >>
      [] qtr = <<"Q", "2">> -> << <<"0","8","-","1","6">>, <<"1","1","-","1","4">> >>
      [] qtr = <<"Q", "3">> -> << <<"1","1","-","1","5">>, <<"0","3","-","3","1">> >>
      [] qtr = <<"Q", "4">> -> << <<"0","4","-","0","1">>, <<"0","5","-","1","5">> >>
      [] OTHER -> <<>>

\* the month-day texts of the four return statements; <<>> when no branch matches
WindowBounds(qtr) ==
    CASE qtr = <<"Q", "1">> -> << <<"0","5","-","1","6">>, <<"0","8","-","1","4">> >>
      [] qtr = <<"Q", "2">> -> << <<"0","8","-","1","5">>, <<"1","1","-","1","4">> >>
      [] qtr = <<"Q", "3">> -> << <<"1","1","-","1","5">>, <<"0","3","-","3","1">> >>
      [] qtr = <<"Q", "4">> -> << <<"0","4","-","0","1">>, <<"0","5","-","1","5">> >>
      [] OTHER -> <<>>

\* FinLabFactorFetcher.convert_quarter_to_dates
convert_quarter_to_dates(quarter) ==
    LET parts == Split(quarter, "-") IN
    IF Len(parts) # 2 THEN WindowError                 \* tuple unpacking raises ValueError
    ELSE LET year == parts[1]
             qtr == parts[2]
             md == WindowBounds(qtr)
             nextYear == ToStr(DigitsVal(year) + 1)    \* f"{int(year) + 1}"
         IN  IF md = <<>> THEN WindowError             \* raise ValueError
             ELSE IF qtr \in {<<"Q", "1">>, <<"Q", "2">>}
                  THEN Window(DateText(year, md[1]), DateText(year, md[2]))
             ELSE IF ~IntOk(year) THEN WindowError     \* int(year) raises ValueError
             ELSE IF qtr = <<"Q", "3">>
                  THEN Window(DateText(year, md[1]), DateText(nextYear, md[2]))
             ELSE Window(DateText(nextYear, md[1]), DateText(nextYear, md[2]))

IsLeap(y) == (y % 4 = 0 /\ y % 100 # 0) \/ y % 400 = 0

DaysInMonth(y, m) ==
    IF m = 2 THEN (IF IsLeap(y) THEN 29 ELSE 28)
    ELSE IF m \in {4, 6, 9, 11} THEN 30 ELSE 31

NoDate == [ok |-> FALSE, y |-> 0, m |-> 0, d |-> 0]

\* datetime.strptime(date, "%Y-%m-%d").date(): %Y is exactly four digits, %m and
\* %d one or two digits; the year starts at 1 and the day must exist in the month
Strptime(date) ==
    LET parts == Split(date, "-") IN
    IF Len(parts) # 3 THEN NoDate
    ELSE IF ~(Len(parts[1]) = 4 /\ AllDigits(parts[1])) THEN NoDate
    ELSE IF ~(Len(parts[2]) \in {1, 2} /\ AllDigits(parts[2])) THEN NoDate
    ELSE IF ~(Len(parts[3]) \in {1, 2} /\ AllDigits(parts[3])) THEN NoDate
    ELSE LET y == DigitsVal(parts[1])
             m == DigitsVal(parts[2])
             d == DigitsVal(parts[3])
         IN  IF y >= 1 /\ m \in 1..12 /\ d >= 1 /\ d <= DaysInMonth(y, m)
             THEN [ok |-> TRUE, y |-> y, m |-> m, d |-> d]
             ELSE NoDate

\* f"{y}-Q1"
QuarterLabel(y, n) == ToStr(y) \o <<"-", "Q", Digits[n + 1]>>

\* a variant that forgets the year shift of January to March
QuarterOfDate_sameyear(y, m, day) ==
    IF (m = 5 /\ day >= 16) \/ m \in {6, 7} \/ (m = 8 /\ day <= 14) THEN QuarterLabel(y, 1)
    ELSE IF (m = 8 /\ day >= 15) \/ m \in {9, 10} \/ (m = 11 /\ day <= 14) THEN QuarterLabel(y, 2)
    ELSE IF (m = 11 /\ day >= 15) \/ m = 12 THEN QuarterLabel(y, 3)
    ELSE IF m \in {1, 2} \/ (m = 3 /\ day <= 31) THEN QuarterLabel(y, 3)
    ELSE IF m = 4 \/ (m = 5 /\ day <= 15) THEN QuarterLabel(y - 1, 4)
    ELSE QuarterLabel(y, 1)

\* the branch chain of convert_date_to_quarter
QuarterOfDate(y, m, day) ==
    IF (m = 5 /\ day >= 16) \/ m \in {6, 7} \/ (m = 8 /\ day <= 14) THEN QuarterLabel(y, 1)
    ELSE IF (m = 8 /\ day >= 15) \/ m \in {9, 10} \/ (m = 11 /\ day <= 14) THEN QuarterLabel(y, 2)
    ELSE IF (m = 11 /\ day >= 15) \/ m = 12 THEN QuarterLabel(y, 3)
    ELSE IF m \in {1, 2} \/ (m = 3 /\ day <= 31) THEN QuarterLabel(y - 1, 3)
    ELSE IF m = 4 \/ (m = 5 /\ day <= 15) THEN QuarterLabel(y - 1, 4)
    ELSE QuarterLabel(y, 1)

\* FinLabFactorFetcher.convert_date_to_quarter
convert_date_to_quarter(date) ==
    LET d == Strptime(date) IN
    IF ~d.ok THEN QuarterError
    ELSE Quarter(QuarterOfDate(d.y, d.m, d.d))

(***************************************************************************)
(* Inputs of the quarter calendar                                          *)
(***************************************************************************)
Years == {1, 999, 1000, 1900, 2000, 9998, 9999} \cup (BaseYear..(BaseYear + YearSpan))

Pad4(y) == ZeroPad(ToStr(y), 4)
Pad2(n) == ZeroPad(ToStr(n), 2)

QuarterTexts == {<<"Q", "1">>, <<"Q", "2">>, <<"Q", "3">>, <<"Q", "4">>}

BadQuarterTexts ==
    {<<"Q", "0">>, <<"Q", "5">>, <<"q", "1">>, <<"1">>, <<"Q">>, <<>>, <<"Q", "1", "1">>}

BadYearTexts ==
    {<<"x", "x", "x", "x">>, <<"2", "0", "x", "3">>, <<>>, <<"2", "0", "1">>,
     <<"2", "0", "1", "3", "0">>}

YearTexts == {Pad4(y) : y \in Years}

LabelInputs ==
    {y \o Dash \o q : y \in YearTexts \cup BadYearTexts, q \in QuarterTexts \cup BadQuarterTexts}
    \cup {y \o q : y \in YearTexts, q \in QuarterTexts}                      \* no separator
    \cup {y \o Dash \o q \o Dash \o q : y \in YearTexts, q \in QuarterTexts} \* two separators

\* every valid calendar date of the years above, as "YYYY-MM-DD"
DateInputs ==
    {Pad4(y) \o Dash \o Pad2(m) \o Dash \o Pad2(d) :
        y \in Years, m \in 1..12, d \in 1..31}

ValidDateInputs == {t \in DateInputs : Strptime(t).ok}

(***************************************************************************)
(* Quarter calendar: the calls                                             *)
(***************************************************************************)
RankIdle ==
    /\ factor_df = <<>> /\ positive_corr = TRUE /\ ranked = <<>>
    /\ other_df = <<>> /\ other_ranked = <<>>

NoCwr == [st |-> "none", rows |-> <<>>, reads |-> 0]

CwrIdle == ranked_dfs = <<>> /\ weights = <<>> /\ cwr_corr = TRUE /\ cwr = NoCwr

\* no table yet
NoTable == [st |-> "none", columns |-> <<>>, rows |-> <<>>]

\* trading_days=None
None == <<0>>

FxIdle == fx_factor = NoTable /\ fx_days = None /\ fx_out = NoTable /\ fx_again = NoTable

NoFactorData == [st |-> "none", columns |-> <<>>, rows |-> <<>>, long |-> <<>>]

GfIdle == gf_raw = NoTable /\ gf_symbols = <<>> /\ gf_days = None /\ gf_out = NoFactorData

NoOutcome == [st |-> "none", id |-> 0]

RtIdle ==
    /\ rtRetries = 0 /\ rtPc = "idle" /\ rtAttempt = 0
    /\ rtTrace = <<>> /\ rtResult = NoOutcome

NoDelay == 0 - 1

DlIdle == dlArgs = <<>> /\ dlDelay = NoDelay

UpIdle == upOp = "" /\ upPc = "idle" /\ upLog = <<>> /\ upResult = NoOutcome

NoExit == [st |-> "none", code |-> 0]

EtlIdle ==
    /\ etlArgs = <<>> /\ etlPc = "idle" /\ etlIdx = 0
    /\ etlLog = <<>> /\ etlResult = NoExit

NoLoad == [st |-> "none", op |-> ""]

BqIdle ==
    /\ bqMode = "" /\ bqPc = "idle" /\ bqStaging = FALSE
    /\ bqTrace = <<>> /\ bqPending = "" /\ bqResult = NoLoad

ScIdle == cwr_scale = 0 /\ cwr_scaled = NoCwr

\* the components added after the expander and the retry helper
LateIdle == DlIdle /\ UpIdle /\ EtlIdle /\ BqIdle /\ ScIdle
lateVars == <<dlVars, upVars, etlVars, bqVars, scVars>>

\* the components a specification does not use
OthersIdle == FxIdle /\ GfIdle /\ RtIdle /\ LateIdle
otherVars == <<fxVars, gfVars, rtVars, lateVars>>

QcInit ==
    /\ \/ qcOrigin = "label" /\ qcLabel \in LabelInputs /\ qcDate = <<>>
       \/ qcOrigin = "date" /\ qcDate \in ValidDateInputs /\ qcLabel = <<>>
    /\ qcWindow = NoWindow
    /\ qcQuarter = NoQuarter
    /\ RankIdle
    /\ CwrIdle
    /\ OthersIdle

\* a call of convert_quarter_to_dates, on the caller's label or on the label that
\* convert_date_to_quarter returned
ConvertQuarterToDates ==
    /\ qcWindow.st = "none"
    /\ \E quarter \in (IF qcOrigin = "label" THEN {qcLabel}
                       ELSE IF qcQuarter.st = "ok" THEN {qcQuarter.label} ELSE {}) :
          /\ qcLabel' = quarter
          /\ qcWindow' = convert_quarter_to_dates(quarter)
    /\ UNCHANGED <<qcOrigin, qcDate, qcQuarter, rankVars, cwrVars, otherVars>>

\* a call of convert_date_to_quarter, on the caller's date or on a date that
\* convert_quarter_to_dates returned
ConvertDateToQuarter ==
    /\ qcQuarter.st = "none"
    /\ \E date \in (IF qcOrigin = "date" THEN {qcDate}
                    ELSE IF qcWindow.st = "ok" THEN {qcWindow.start, qcWindow.end} ELSE {}) :
          /\ qcDate' = date
          /\ qcQuarter' = convert_date_to_quarter(date)
    /\ UNCHANGED <<qcOrigin, qcLabel, qcWindow, rankVars, cwrVars, otherVars>>

QcNext == ConvertQuarterToDates \/ ConvertDateToQuarter

SpecQuarter == QcInit /\ [][QcNext]_vars

(***************************************************************************)
(* Quarter calendar: properties                                            *)
(***************************************************************************)
\* the label reads "dddd-Qn", four digit characters and n in 1..4
IsQuarterLabel(l) ==
    LET parts == Split(l, "-") IN
    /\ Len(parts) = 2
    /\ Len(parts[1]) = 4 /\ AllDigits(parts[1])
    /\ parts[2] \in QuarterTexts

LabelYear(l) == DigitsVal(Split(l, "-")[1])
LabelQuarter(l) == Split(l, "-")[2]

\* the round trip of the label the caller supplied, as far as the calls have gone
RoundTripHolds ==
    /\ qcWindow.st # "none" => qcWindow.st = "ok"
    /\ qcQuarter.st # "none" => qcQuarter = Quarter(qcLabel)

\* C1 as stated: for every label "Y-Qn" with a 4-digit year (1000..9999),
\* convert_date_to_quarter maps both dates of convert_quarter_to_dates(label) back to
\* the label.
C1_RoundTripEveryYear ==
    (qcOrigin = "label" /\ IsQuarterLabel(qcLabel) /\ LabelYear(qcLabel) >= 1000)
        => RoundTripHolds

\* the years whose labels and window dates all keep four digits without padding
RoundTripYear(l) ==
    /\ LabelYear(l) >= 1000
    /\ LabelYear(l) <= 9998 \/ (LabelYear(l) = 9999 /\ LabelQuarter(l) \in {<<"Q", "1">>, <<"Q", "2">>})

\* C1 amended: for every label "Y-Qn" with 1000 <= Y <= 9998 (and Y = 9999 for Q1 and
\* Q2), convert_date_to_quarter maps the start date and the end date of
\* convert_quarter_to_dates(label) back to the label.
C1_RoundTrip ==
    (qcOrigin = "label" /\ IsQuarterLabel(qcLabel) /\ RoundTripYear(qcLabel)) => RoundTripHolds

\* a Q3 label whose end date, in the next calendar year, was mapped back to it
C1_Witness ==
    /\ qcOrigin = "label" /\ IsQuarterLabel(qcLabel) /\ RoundTripYear(qcLabel)
    /\ LabelQuarter(qcLabel) = <<"Q", "3">>
    /\ qcWindow.st = "ok" /\ qcDate = qcWindow.end
    /\ qcQuarter = Quarter(qcLabel)

\* date order on parsed dates
DateLeq(a, b) ==
    \/ a.y < b.y
    \/ a.y = b.y /\ a.m < b.m
    \/ a.y = b.y /\ a.m = b.m /\ a.d <= b.d

\* the date text lies in the inclusive window; the window's texts are read with the
\* date format of the code ("%Y-%m-%d")
InWindow(date, w) ==
    /\ w.st = "ok"
    /\ Strptime(w.start).ok /\ Strptime(w.end).ok
    /\ DateLeq(Strptime(w.start), Strptime(date))
    /\ DateLeq(Strptime(date), Strptime(w.end))

\* the window the disclosure calendar gives to quarter n of year y
CalendarWindow(y, qtr) ==
    CASE qtr = <<"Q", "1">> -> <<[ok |-> TRUE, y |-> y, m |-> 5, d |-> 16], [ok |-> TRUE, y |-> y, m |-> 8, d |-> 14]>>
      [] qtr = <<"Q", "2">> -> <<[ok |-> TRUE, y |-> y, m |-> 8, d |-> 15], [ok |-> TRUE, y |-> y, m |-> 11, d |-> 14]>>
      [] qtr = <<"Q", "3">> -> <<[ok |-> TRUE, y |-> y, m |-> 11, d |-> 15], [ok |-> TRUE, y |-> y + 1, m |-> 3, d |-> 31]>>
      [] qtr = <<"Q", "4">> -> <<[ok |-> TRUE, y |-> y + 1, m |-> 4, d |-> 1], [ok |-> TRUE, y |-> y + 1, m |-> 5, d |-> 15]>>

\* the labels of the years around a date
NearLabels(date) ==
    {ToStr(y) \o Dash \o q : y \in (Strptime(date).y - 1)..(Strptime(date).y + 1), q \in QuarterTexts}

\* the date the caller supplied got one label, and lies in that label's window (which
\* is the calendar's window) and in no other label's window
InOwnWindowOnly ==
    /\ qcQuarter.st # "none" => qcQuarter.st = "ok"
    /\ qcWindow.st # "none" =>
          /\ InWindow(qcDate, qcWindow)
          /\ <<Strptime(qcWindow.start), Strptime(qcWindow.end)>>
                = CalendarWindow(LabelYear(qcLabel), LabelQuarter(qcLabel))
          /\ \A l \in NearLabels(qcDate) :
                InWindow(qcDate, convert_quarter_to_dates(l)) => l = qcLabel

\* C2 as stated: for every valid calendar date d, convert_date_to_quarter returns one
\* label L without raising and d lies inside convert_quarter_to_dates(L).
C2_EveryDateInItsWindow ==
    qcOrigin = "date" => InOwnWindowOnly

\* the dates from 1000-05-16 to 9999-11-14
FourDigitWindowDate(date) ==
    LET d == Strptime(date) IN
    /\ DateLeq([y |-> 1000, m |-> 5, d |-> 16], d)
    /\ DateLeq(d, [y |-> 9999, m |-> 11, d |-> 14])

\* C2 amended: convert_date_to_quarter returns exactly one label without raising for
\* every valid calendar date; for every date from 1000-05-16 to 9999-11-14 the date lies
\* inside the inclusive window convert_quarter_to_dates gives for that label (Q1 =
\* Y-05-16..Y-08-14, Q2 = Y-08-15..Y-11-14, Q3 = Y-11-15..(Y+1)-03-31, Q4 =
\* (Y+1)-04-01..(Y+1)-05-15) and inside no other label's window.
C2_DateInItsWindow ==
    qcOrigin = "date" =>
        /\ qcQuarter.st # "none" => qcQuarter.st = "ok"
        /\ FourDigitWindowDate(qcDate) => InOwnWindowOnly

\* a leap day, labelled Q3 of the year before, with that label's window computed
C2_Witness ==
    /\ qcOrigin = "date"
    /\ Strptime(qcDate).m = 2 /\ Strptime(qcDate).d = 29
    /\ FourDigitWindowDate(qcDate)
    /\ qcQuarter.st = "ok" /\ qcWindow.st = "ok"
    /\ LabelYear(qcLabel) = Strptime(qcDate).y - 1
    /\ InWindow(qcDate, qcWindow)

\* C3: convert_quarter_to_dates raises ValueError for every input that does not read
\* "<4-digit year>-Q<n>" with n in 1..4, and never returns a window for it.
C3_MalformedLabelRaises ==
    (qcOrigin = "label" /\ ~IsQuarterLabel(qcLabel) /\ qcWindow.st # "none")
        => qcWindow.st = "ValueError"

(***************************************************************************)
(* Cross-sectional ranker                                                  *)
(***************************************************************************)
\* a float cell: <<>> is NaN (a missing value), <<v>> is the number v
NaN == <<>>
Num(v) == <<v>>
IsNaN(x) == x = <<>>

Row(d, a, v) == [datetime |-> d, asset |-> a, value |-> v]

\* a variant that ranks over the whole table instead of per date
SameGroup_all(df, i, j) == TRUE

\* groupby(level="datetime"): the rows i and j are in the same group
SameGroup(df, i, j) == df[i].datetime = df[j].datetime

\* a variant that ignores the direction flag
Before_ascending(x, y, ascending) == x[1] < y[1]

\* rank(ascending=...): x is ordered strictly before y
Before(x, y, ascending) == IF ascending THEN x[1] < y[1] ELSE x[1] > y[1]

\* a variant with the tie rule method="min", in half units
TieRank_min(before, tied) == 2 * before + 2

\* the tie rule of Series.rank, whose default is method="average": the mean of the
\* positions before+1 .. before+tied, in half units (twice the rank)
TieRank(before, tied) == 2 * before + tied + 1

\* groupby(...)[rank_column].rank(ascending=positive_corr).fillna(0) for row i: missing
\* values are kept out of the ranking (na_option="keep") and then given 0
GroupRank(df, i, ascending) ==
    LET group == {j \in 1..Len(df) : SameGroup(df, i, j) /\ ~IsNaN(df[j].value)}
        before == {j \in group : ~IsNaN(df[i].value) /\ Before(df[j].value, df[i].value, ascending)}
        tied == {j \in group : df[j].value = df[i].value}
    IN  IF IsNaN(df[i].value) THEN 0
        ELSE TieRank(Cardinality(before), Cardinality(tied))

\* a variant that drops the rows with a missing value
rank_stocks_by_factor_dropna(df, ascending) ==
    LET kept == SelectSeq(df, LAMBDA r : ~IsNaN(r.value)) IN
    [i \in 1..Len(kept) |->
        [datetime |-> kept[i].datetime, asset |-> kept[i].asset, value |-> kept[i].value,
         rank |-> GroupRank(kept, i, ascending)]]

\* FactorRanking.rank_stocks_by_factor: the rows of the input, in order, each with
\* its rank (in half units)
rank_stocks_by_factor(df, ascending) ==
    [i \in 1..Len(df) |->
        [datetime |-> df[i].datetime, asset |-> df[i].asset, value |-> df[i].value,
         rank |-> GroupRank(df, i, ascending)]]

(***************************************************************************)
(* Inputs of the ranker                                                    *)
(***************************************************************************)
Dates == {1, 2}
AssetOrder == <<"A", "B", "C">>      \* the instrument ids, in string order
Assets == {AssetOrder[i] : i \in 1..Len(AssetOrder)}
Values == {NaN, Num(1), Num(2), Num(3)}

Rows == {Row(d, a, v) : d \in Dates, a \in Assets, v \in Values}

SeqsUpTo(S, n) == UNION {[1..k -> S] : k \in 0..n}

QcIdle ==
    /\ qcOrigin = "label" /\ qcLabel = <<>> /\ qcWindow = NoWindow
    /\ qcDate = <<>> /\ qcQuarter = NoQuarter

NotRanked == <<[datetime |-> 0, asset |-> "", value |-> NaN, rank |-> 0 - 1]>>

RankInit ==
    /\ factor_df \in SeqsUpTo(Rows, MaxRows)
    /\ positive_corr \in BOOLEAN
    /\ ranked = NotRanked
    /\ other_df = <<>>
    /\ other_ranked = NotRanked
    /\ QcIdle
    /\ CwrIdle
    /\ OthersIdle

\* a call of rank_stocks_by_factor(factor_df, positive_corr)
RankStocksByFactor ==
    /\ ranked = NotRanked
    /\ ranked' = rank_stocks_by_factor(factor_df, positive_corr)
    /\ UNCHANGED <<factor_df, positive_corr, other_df, other_ranked, qcVars, cwrVars, otherVars>>

SpecRank == RankInit /\ [][RankStocksByFactor]_vars

(***************************************************************************)
(* Ranker: properties.  A rank r of the code is held as 2*r.               *)
(***************************************************************************)
RankDone == ranked # NotRanked

\* the rows of a ranked table with a value, on date d
Present(t, d) == {i \in 1..Len(t) : t[i].datetime = d /\ ~IsNaN(t[i].value)}

\* row i is ordered strictly before row j in the direction of the flag
Ahead(t, i, j, ascending) ==
    IF ascending THEN t[i].value[1] < t[j].value[1] ELSE t[i].value[1] > t[j].value[1]

\* C4: per date, among the records with a value: with positive_corr the smaller value
\* has the strictly smaller rank and a unique smallest value has rank 1; without it the
\* larger value has the strictly smaller rank and a unique largest value has rank 1;
\* n pairwise distinct values get exactly the ranks 1..n.
C4_RankDirection ==
    RankDone =>
        \A d \in Dates :
            LET P == Present(ranked, d) IN
            /\ \A i, j \in P :
                  Ahead(ranked, i, j, positive_corr) => ranked[i].rank < ranked[j].rank
            /\ \A i \in P :
                  (\A j \in P \ {i} : Ahead(ranked, i, j, positive_corr)) => ranked[i].rank = 2
            /\ (\A i, j \in P : i # j => ranked[i].value # ranked[j].value)
                  => {ranked[i].rank : i \in P} = {2 * k : k \in 1..Cardinality(P)}

\* three distinct values on one date ranked downwards: the largest has rank 1
C4_Witness ==
    /\ RankDone /\ ~positive_corr
    /\ \E d \in Dates :
          /\ Cardinality(Present(ranked, d)) = 3
          /\ \E i, j, k \in Present(ranked, d) :
                /\ ranked[i].value = Num(3) /\ ranked[i].rank = 2
                /\ ranked[j].value = Num(2) /\ ranked[j].rank = 4
                /\ ranked[k].value = Num(1) /\ ranked[k].rank = 6

StrictlyBefore(t, d, i) == {j \in Present(t, d) : Ahead(t, j, i, positive_corr)}
TiedWith(t, d, i) == {j \in Present(t, d) : t[j].value = t[i].value}

\* C5 as stated: per date the ranks of the records with a value are a competition
\* ranking: rank = 1 + the number of records ordered strictly before.
C5_CompetitionRanking ==
    RankDone =>
        \A d \in Dates : \A i \in Present(ranked, d) :
            ranked[i].rank = 2 * (1 + Cardinality(StrictlyBefore(ranked, d, i)))

\* C5 amended: per date the ranks of the records with a value are an average ranking
\* that starts at 1: a record's rank equals the number of records of that date ordered
\* strictly before it plus (t + 1) / 2, t being the size of its tie group (the mean of
\* the positions the group occupies), so tied values get the same rank.
C5_AverageRanking ==
    RankDone =>
        \A d \in Dates : \A i \in Present(ranked, d) :
            /\ ranked[i].rank = 2 * Cardinality(StrictlyBefore(ranked, d, i))
                                  + Cardinality(TiedWith(ranked, d, i)) + 1
            /\ \A j \in TiedWith(ranked, d, i) : ranked[j].rank = ranked[i].rank

\* two tied records share rank 1.5 and the next value has rank 3
C5_Witness ==
    /\ RankDone
    /\ \E d \in Dates : \E i, j, k \in Present(ranked, d) :
          /\ i # j /\ ranked[i].value = ranked[j].value
          /\ ranked[i].rank = 3 /\ ranked[j].rank = 3 /\ ranked[k].rank = 6

\* C6: one output record per input record, with the same date, instrument and value;
\* rank 0 exactly for the records without a value, and rank >= 1 for the others.
C6_RowsKeptAndSentinel ==
    RankDone =>
        /\ Len(ranked) = Len(factor_df)
        /\ \A i \in 1..Len(ranked) :
              /\ Row(ranked[i].datetime, ranked[i].asset, ranked[i].value) = factor_df[i]
              /\ ranked[i].rank = 0 <=> IsNaN(factor_df[i].value)
              /\ ~IsNaN(factor_df[i].value) => ranked[i].rank >= 2

\* a table with a missing value and a present one on the same date, both kept
C6_Witness ==
    /\ RankDone /\ Len(ranked) = MaxRows
    /\ \E i, j \in 1..Len(ranked) :
          /\ ranked[i].datetime = ranked[j].datetime
          /\ IsNaN(ranked[i].value) /\ ranked[i].rank = 0
          /\ ~IsNaN(ranked[j].value) /\ ranked[j].rank = 2

(***************************************************************************)
(* Ranker: two calls on tables that agree on one date                      *)
(***************************************************************************)
PairAssets == {"A", "B"}
PairValues == {NaN, Num(1), Num(2)}

PairRows(ds) == {Row(d, a, v) : d \in ds, a \in PairAssets, v \in PairValues}

PairInit ==
    /\ \E d \in Dates :
          \E shared \in SeqsUpTo(PairRows({d}), MaxShared) :
              \E a, b \in SeqsUpTo(PairRows(Dates \ {d}), MaxOther) :
                  /\ factor_df = shared \o a
                  /\ other_df = b \o shared
    /\ positive_corr \in BOOLEAN
    /\ ranked = NotRanked
    /\ other_ranked = NotRanked
    /\ QcIdle
    /\ CwrIdle
    /\ OthersIdle

\* a second call, rank_stocks_by_factor(other_df, positive_corr)
RankOther ==
    /\ RankDone
    /\ other_ranked = NotRanked
    /\ other_ranked' = rank_stocks_by_factor(other_df, positive_corr)
    /\ UNCHANGED <<factor_df, positive_corr, ranked, other_df, qcVars, cwrVars, otherVars>>

PairNext == RankStocksByFactor \/ RankOther

SpecRankPair == PairInit /\ [][PairNext]_vars

OnDate(t, d) == SelectSeq(t, LAMBDA r : r.datetime = d)

\* C7: two inputs with the same records on date d, whatever their records on other
\* dates, and the same flag: the records of date d get the same ranks in both outputs.
C7_PerDateIndependence ==
    (RankDone /\ other_ranked # NotRanked) =>
        \A d \in Dates :
            OnDate(factor_df, d) = OnDate(other_df, d)
                => OnDate(ranked, d) = OnDate(other_ranked, d)

\* two tables that share two records on a date and differ on the other date
C7_Witness ==
    /\ RankDone /\ other_ranked # NotRanked
    /\ \E d \in Dates :
          /\ Len(OnDate(factor_df, d)) = 2
          /\ OnDate(factor_df, d) = OnDate(other_df, d)
          /\ OnDate(ranked, d) = OnDate(other_ranked, d)
          /\ \E e \in Dates \ {d} :
                /\ OnDate(factor_df, e) # OnDate(other_df, e)
                /\ OnDate(factor_df, e) # <<>> /\ OnDate(other_df, e) # <<>>

(***************************************************************************)
(* Weighted rank combiner                                                  *)
(***************************************************************************)
\* a variant that accepts more weights than tables
LengthMismatch_fewer(dfs, w) == Len(dfs) > Len(w)

\* len(ranked_dfs) != len(weights)
LengthMismatch(dfs, w) == Len(dfs) # Len(w)

\* a variant that forgets the weight
Scaled_unit(cell, w) == cell

\* a variant that clips the product at 2 (4 half units)
Scaled_clip(cell, w) ==
    IF IsNaN(cell) THEN NaN ELSE Num(IF cell[1] * w > 4 THEN 4 ELSE cell[1] * w)

\* df[rank_column] * weights[i] for one cell; NaN stays NaN
Scaled(cell, w) == IF IsNaN(cell) THEN NaN ELSE Num(cell[1] * w)

\* part: the keys of table df with the column rank_i
Part(df, w) ==
    [i \in 1..Len(df) |->
        [datetime |-> df[i].datetime, asset |-> df[i].asset, cols |-> <<Scaled(df[i].rank, w)>>]]

AssetIndex(a) == CHOOSE i \in 1..Len(AssetOrder) : AssetOrder[i] = a

Key(r) == <<r.datetime, AssetIndex(r.asset)>>

KeyLess(k, l) == k[1] < l[1] \/ (k[1] = l[1] /\ k[2] < l[2])

RECURSIVE SortedKeys(_)
SortedKeys(ks) ==
    IF ks = {} THEN <<>>
    ELSE LET k == CHOOSE x \in ks : \A y \in ks \ {x} : KeyLess(x, y)
         IN  <<k>> \o SortedKeys(ks \ {k})

NaNs(n) == [i \in 1..n |-> NaN]

RECURSIVE Flatten(_)
Flatten(ss) == IF ss = <<>> THEN <<>> ELSE Head(ss) \o Flatten(Tail(ss))

\* the rows an outer merge makes for one key: every pairing of the left and right rows
\* with that key, or the rows of one side padded with NaN
MergeKey(left, right, width, k) ==
    LET ls == SelectSeq(left, LAMBDA r : Key(r) = k)
        rs == SelectSeq(right, LAMBDA r : Key(r) = k)
    IN  IF rs = <<>> THEN [i \in 1..Len(ls) |-> [ls[i] EXCEPT !.cols = @ \o <<NaN>>]]
        ELSE IF ls = <<>> THEN [i \in 1..Len(rs) |-> [rs[i] EXCEPT !.cols = NaNs(width) \o @]]
        ELSE Flatten([i \in 1..Len(ls) |->
                        [j \in 1..Len(rs) |-> [ls[i] EXCEPT !.cols = @ \o rs[j].cols]]])

\* combined.merge(part, on=["datetime", "asset"], how="outer"); width is the number of
\* rank columns of the left table; the result is sorted by key
OuterMerge(left, right, width) ==
    LET ks == SortedKeys({Key(left[i]) : i \in 1..Len(left)}
                         \cup {Key(right[i]) : i \in 1..Len(right)})
    IN  Flatten([n \in 1..Len(ks) |-> MergeKey(left, right, width, ks[n])])

\* the loop over enumerate(ranked_dfs), for the first n tables (n >= 1)
RECURSIVE Combined(_, _, _)
Combined(dfs, w, n) ==
    IF n = 1 THEN Part(dfs[1], w[1])
    ELSE OuterMerge(Combined(dfs, w, n - 1), Part(dfs[n], w[n]), n - 1)

\* a variant that keeps the incomplete rows
DropNa_keep(rows) == rows

\* a variant that also drops the rows with a rank of 0
DropNa_zero(rows) ==
    SelectSeq(rows, LAMBDA r : \A c \in 1..Len(r.cols) : ~IsNaN(r.cols[c]) /\ r.cols[c] # Num(0))

\* combined.dropna(): the rows without any NaN cell
DropNa(rows) == SelectSeq(rows, LAMBDA r : \A c \in 1..Len(r.cols) : ~IsNaN(r.cols[c]))

\* a variant with count(axis=1) for sum(axis=1)
RowSum_count(cols) == Len(cols)

\* combined.filter(like="rank_").sum(axis=1): the sum of the cells, NaN skipped
RECURSIVE RowSum(_)
RowSum(cols) ==
    IF cols = <<>> THEN 0
    ELSE (IF IsNaN(Head(cols)) THEN 0 ELSE Head(cols)[1]) + RowSum(Tail(cols))

CwrError(kind, n) == [st |-> kind, rows |-> <<>>, reads |-> n]

\* a variant that starts from an empty table, so that no tables give an empty result
calculate_weighted_rank_emptyok(dfs, w, ascending) ==
    IF LengthMismatch(dfs, w) THEN CwrError("ValueError", 0)
    ELSE IF dfs = <<>> THEN [st |-> "ok", rows |-> <<>>, reads |-> 0]
    ELSE LET combined == DropNa(Combined(dfs, w, Len(dfs)))
             scored == [i \in 1..Len(combined) |->
                           Row(combined[i].datetime, combined[i].asset,
                               Num(RowSum(combined[i].cols)))]
             rk == rank_stocks_by_factor(scored, ascending)
         IN  [st |-> "ok",
              rows |-> [i \in 1..Len(rk) |->
                          [datetime |-> rk[i].datetime, asset |-> rk[i].asset,
                           weighted_rank |-> rk[i].rank]],
              reads |-> Len(dfs)]

\* FactorRanking.calculate_weighted_rank; reads is the number of tables the call
\* has read when it ends
calculate_weighted_rank(dfs, w, ascending) ==
    IF LengthMismatch(dfs, w) THEN CwrError("ValueError", 0)
    ELSE IF dfs = <<>> THEN CwrError("AttributeError", 0)     \* None.dropna()
    ELSE LET combined == DropNa(Combined(dfs, w, Len(dfs)))
             scored == [i \in 1..Len(combined) |->
                           Row(combined[i].datetime, combined[i].asset,
                               Num(RowSum(combined[i].cols)))]
             rk == rank_stocks_by_factor(scored, ascending)
         IN  [st |-> "ok",
              rows |-> [i \in 1..Len(rk) |->
                          [datetime |-> rk[i].datetime, asset |-> rk[i].asset,
                           weighted_rank |-> rk[i].rank]],
              reads |-> Len(dfs)]

(***************************************************************************)
(* Inputs of the combiner                                                  *)
(***************************************************************************)
\* the (date, instrument) pairs of the pipeline's long tables: two instruments on
\* the first date, one of them on the second
CwrUniverse == {<<1, "A">>, <<1, "B">>, <<2, "A">>}
CwrValues == {Num(1), Num(2)}
CwrKeys == SortedKeys({<<k[1], AssetIndex(k[2])>> : k \in CwrUniverse})
Weights == {0 - 1, 0, 1, 2}
Absent == <<0>>

\* the long table of a choice f of a value, or of no record, for every key
LongTable(f) ==
    LET present == SelectSeq(CwrKeys, LAMBDA k : f[k] # Absent)
    IN  [i \in 1..Len(present) |->
            Row(present[i][1], AssetOrder[present[i][2]], f[present[i]])]

KeySet == {CwrKeys[i] : i \in 1..Len(CwrKeys)}

\* the rank tables of the pipeline: rank_stocks_by_factor applied to a long table with
\* one record per (date, instrument), reduced to the columns the combiner reads
RankTable(f, ascending) ==
    LET t == rank_stocks_by_factor(LongTable(f), ascending)
    IN  [i \in 1..Len(t) |->
            [datetime |-> t[i].datetime, asset |-> t[i].asset, rank |-> Num(t[i].rank)]]

RankTables ==
    {RankTable(f, asc) : f \in [KeySet -> CwrValues \cup {Absent}], asc \in BOOLEAN}

CwrInit ==
    /\ ranked_dfs \in SeqsUpTo(RankTables, MaxTables)
    /\ weights = <<>>
    /\ cwr_corr = TRUE
    /\ cwr = NoCwr
    /\ QcIdle
    /\ RankIdle
    /\ OthersIdle

\* a call of calculate_weighted_rank on the rank tables, with weights w and flag c
CalculateWeightedRank ==
    /\ cwr = NoCwr
    /\ \E w \in SeqsUpTo(Weights, MaxTables), c \in BOOLEAN :
          /\ weights' = w
          /\ cwr_corr' = c
          /\ cwr' = calculate_weighted_rank(ranked_dfs, w, c)
    /\ UNCHANGED <<ranked_dfs, qcVars, rankVars, otherVars>>

SpecCombine == CwrInit /\ [][CalculateWeightedRank]_vars

(***************************************************************************)
(* Combiner: properties                                                    *)
(***************************************************************************)
CwrDone == cwr.st # "none"

TableKeys(t) == {<<t[i].datetime, t[i].asset>> : i \in 1..Len(t)}

\* C8: whenever len(ranked_dfs) # len(weights), an empty list on either side included,
\* the call raises ValueError, before it reads, joins or ranks any table.
C8_LengthMismatchRaises ==
    (CwrDone /\ Len(ranked_dfs) # Len(weights)) =>
        cwr.st = "ValueError" /\ cwr.reads = 0 /\ cwr.rows = <<>>

\* one table with rows and two weights (the case of the unit test)
C8_Witness ==
    /\ CwrDone /\ Len(ranked_dfs) = 1 /\ ranked_dfs[1] # <<>> /\ Len(weights) = 2
    /\ cwr.st = "ValueError" /\ cwr.reads = 0

\* every row of a table has a rank, and no (date, instrument) occurs twice
CleanTable(t) ==
    /\ \A i \in 1..Len(t) : ~IsNaN(t[i].rank)
    /\ \A i, j \in 1..Len(t) : <<t[i].datetime, t[i].asset>> = <<t[j].datetime, t[j].asset>> => i = j

InEveryTable == {k \in Dates \X Assets : \A n \in 1..Len(ranked_dfs) : k \in TableKeys(ranked_dfs[n])}

\* C9: for N >= 1 rank tables with non-null ranks and unique keys, a (date, instrument)
\* is in the output iff it is in every input table; a pair missing from a table is
\* left out without an error.
C9_InnerJoin ==
    (CwrDone /\ Len(ranked_dfs) >= 1 /\ Len(ranked_dfs) = Len(weights)
             /\ \A n \in 1..Len(ranked_dfs) : CleanTable(ranked_dfs[n])) =>
        /\ cwr.st = "ok"
        /\ TableKeys(cwr.rows) = InEveryTable
        /\ Len(cwr.rows) = Cardinality(InEveryTable)

\* two tables: a pair in both is kept, a pair in the first only and a pair in the
\* second only are left out
C9_Witness ==
    /\ cwr.st = "ok" /\ Len(ranked_dfs) = 2
    /\ TableKeys(cwr.rows) # {}
    /\ TableKeys(ranked_dfs[1]) \ TableKeys(ranked_dfs[2]) # {}
    /\ TableKeys(ranked_dfs[2]) \ TableKeys(ranked_dfs[1]) # {}
    /\ TableKeys(cwr.rows) = TableKeys(ranked_dfs[1]) \cap TableKeys(ranked_dfs[2])

\* the rank of pair k in table t (in half units)
RankIn(t, k) == (CHOOSE i \in 1..Len(t) : <<t[i].datetime, t[i].asset>> = k)

RECURSIVE Score(_, _)
Score(k, n) ==
    IF n = 0 THEN 0
    ELSE Score(k, n - 1) + ranked_dfs[n][RankIn(ranked_dfs[n], k)].rank[1] * weights[n]

\* the surviving pairs of date d with their scores, as a table of that date alone
ScoresOn(d) ==
    LET ks == SortedKeys({<<k[1], AssetIndex(k[2])>> : k \in {x \in InEveryTable : x[1] = d}})
    IN  [i \in 1..Len(ks) |->
            Row(d, AssetOrder[ks[i][2]], Num(Score(<<d, AssetOrder[ks[i][2]]>>, Len(ranked_dfs))))]

\* C10: for every surviving (date, instrument), score = sum of rank_i * weight_i, and
\* weighted_rank is the rank rank_stocks_by_factor gives that score among the surviving
\* instruments of the same date only, in the direction positive_corr; the output has
\* exactly the fields date, instrument, weighted_rank.
C10_WeightedScoreReRanked ==
    cwr.st = "ok" =>
        \A i \in 1..Len(cwr.rows) :
            LET r == cwr.rows[i]
                t == rank_stocks_by_factor(ScoresOn(r.datetime), cwr_corr)
            IN  /\ DOMAIN r = {"datetime", "asset", "weighted_rank"}
                /\ \E j \in 1..Len(t) : t[j].asset = r.asset /\ t[j].rank = r.weighted_rank

\* two tables that rank two instruments in opposite orders on a date; unequal weights
\* decide the composite order
C10_Witness ==
    /\ cwr.st = "ok" /\ Len(ranked_dfs) = 2 /\ weights[1] # weights[2]
    /\ \E i, j \in 1..Len(cwr.rows) :
          LET a == <<cwr.rows[i].datetime, cwr.rows[i].asset>>
              b == <<cwr.rows[j].datetime, cwr.rows[j].asset>>
          IN  /\ a[1] = b[1] /\ a[2] # b[2]
              /\ ranked_dfs[1][RankIn(ranked_dfs[1], a)].rank[1] < ranked_dfs[1][RankIn(ranked_dfs[1], b)].rank[1]
              /\ ranked_dfs[2][RankIn(ranked_dfs[2], a)].rank[1] > ranked_dfs[2][RankIn(ranked_dfs[2], b)].rank[1]
              /\ cwr.rows[i].weighted_rank # cwr.rows[j].weighted_rank
    /\ \E d \in Dates : Len(ScoresOn(d)) = 1

\* the rows of table t on the date of pair k
RowsOnDateOf(t, k) == {i \in 1..Len(t) : t[i].datetime = k[1]}

\* every output pair carries the rank that table t gives it
SameRanksAs(t) ==
    /\ Len(cwr.rows) = Len(t)
    /\ \A i \in 1..Len(cwr.rows) :
          LET k == <<cwr.rows[i].datetime, cwr.rows[i].asset>>
          IN  cwr.rows[i].weighted_rank = t[RankIn(t, k)].rank[1]

\* C11: for a rank table T that rank_stocks_by_factor made from non-null values (ties
\* allowed), calculate_weighted_rank([T], [1.0], positive_corr=True) gives every
\* (date, instrument) the rank T gives it.
C11_SingleFactorIdentity ==
    (cwr.st = "ok" /\ Len(ranked_dfs) = 1 /\ weights = <<1>> /\ cwr_corr)
        => SameRanksAs(ranked_dfs[1])

\* a table with a tie on one date and a record on the other, reproduced
C11_Witness ==
    /\ cwr.st = "ok" /\ Len(ranked_dfs) = 1 /\ weights = <<1>> /\ cwr_corr
    /\ Len(cwr.rows) = 3
    /\ \E i, j \in 1..3 : i # j /\ cwr.rows[i].weighted_rank = 3 /\ cwr.rows[j].weighted_rank = 3
    /\ SameRanksAs(ranked_dfs[1])

\* C12 as stated: for one rank table T and one weight w > 0, the output rank equals
\* T's rank for every (date, instrument), for both values of positive_corr.
C12_SingleTableAnyDirection ==
    (cwr.st = "ok" /\ Len(ranked_dfs) = 1 /\ weights[1] > 0) => SameRanksAs(ranked_dfs[1])

\* every output pair carries the mirror n_d + 1 - rank of the rank table t gives it
MirrorRanksOf(t) ==
    /\ Len(cwr.rows) = Len(t)
    /\ \A i \in 1..Len(cwr.rows) :
          LET k == <<cwr.rows[i].datetime, cwr.rows[i].asset>>
          IN  cwr.rows[i].weighted_rank
                = 2 * (Cardinality(RowsOnDateOf(t, k)) + 1) - t[RankIn(t, k)].rank[1]

\* C12 amended: for one rank table T that rank_stocks_by_factor made from non-null
\* values and one weight w > 0, calculate_weighted_rank([T], [w], positive_corr) gives
\* every (date, instrument) T's rank when positive_corr is True, and the mirrored rank
\* n_d + 1 - rank (n_d records on that date) when positive_corr is False.
C12_SingleTablePositiveWeight ==
    (cwr.st = "ok" /\ Len(ranked_dfs) = 1 /\ weights[1] > 0) =>
        IF cwr_corr THEN SameRanksAs(ranked_dfs[1]) ELSE MirrorRanksOf(ranked_dfs[1])

\* weight 2, re-ranked downwards: ranks 1 and 2 of a date come out as 2 and 1
C12_Witness ==
    /\ cwr.st = "ok" /\ Len(ranked_dfs) = 1 /\ weights = <<2>> /\ ~cwr_corr
    /\ \E i, j \in 1..Len(cwr.rows) :
          /\ ranked_dfs[1][i].datetime = ranked_dfs[1][j].datetime
          /\ ranked_dfs[1][i].rank = Num(2) /\ cwr.rows[i].weighted_rank = 4
          /\ ranked_dfs[1][j].rank = Num(4) /\ cwr.rows[j].weighted_rank = 2

SurvivorsOn(d) == {k \in InEveryTable : k[1] = d}

\* C13: for every N >= 1, every weight vector (positive, zero or negative weights)
\* and both directions, every weighted_rank of date d lies in [1, n_d], n_d being the
\* number of instruments that survive the join on d.
C13_CompositeRankBound ==
    cwr.st = "ok" =>
        \A i \in 1..Len(cwr.rows) :
            /\ cwr.rows[i].weighted_rank >= 2
            /\ cwr.rows[i].weighted_rank <= 2 * Cardinality(SurvivorsOn(cwr.rows[i].datetime))

\* two tables, a negative and a zero weight, two survivors on a date ranked 1 and 2
C13_Witness ==
    /\ cwr.st = "ok" /\ Len(ranked_dfs) = 2
    /\ weights[1] < 0 /\ weights[2] = 0
    /\ \E i, j \in 1..Len(cwr.rows) :
          /\ cwr.rows[i].datetime = cwr.rows[j].datetime
          /\ Cardinality(SurvivorsOn(cwr.rows[i].datetime)) = 2
          /\ cwr.rows[i].weighted_rank = 2 /\ cwr.rows[j].weighted_rank = 4

\* C18: with no rank table and no weight the call raises instead of returning; with
\* N >= 1 tables of zero rows it returns an empty table, as rank_stocks_by_factor does
\* for zero rows.
C18_EmptyInputs ==
    CwrDone =>
        /\ (ranked_dfs = <<>> /\ weights = <<>>) => cwr.st \notin {"ok", "none"}
        /\ (Len(ranked_dfs) >= 1 /\ Len(weights) = Len(ranked_dfs)
              /\ \A n \in 1..Len(ranked_dfs) : ranked_dfs[n] = <<>>)
                 => (cwr.st = "ok" /\ cwr.rows = <<>>)
        /\ rank_stocks_by_factor(<<>>, cwr_corr) = <<>>

\* the call with no table and no weight has raised
C18_Witness ==
    /\ ranked_dfs = <<>> /\ weights = <<>>
    /\ cwr.st = "AttributeError" /\ cwr.rows = <<>>

(***************************************************************************)
(* Factor expander: FinLabFactorFetcher.extend_factor_data                 *)
(*                                                                         *)
(* Dates are day numbers.  A wide table has a column sequence and rows     *)
(* [index, vals], vals[k] being the cell of column k.                      *)
(***************************************************************************)
MaxDay == 3
Days == 1..MaxDay

\* the provider's instrument columns
Instruments == <<"A", "B">>

Table(columns, rows) == [st |-> "ok", columns |-> columns, rows |-> rows]

\* the value the provider disclosed for column k on day d
Cell(d, k) == Num(10 * d + k)

\* the elements of a set of days in increasing order
SortedDays(S) ==
    CHOOSE s \in [1..Cardinality(S) -> S] : \A i, j \in 1..Cardinality(S) : i < j => s[i] < s[j]

Range(s) == {s[i] : i \in 1..Len(s)}

\* the date column of a table
IndexOf(t) == {t.rows[i].index : i \in 1..Len(t.rows)}

\* the row of table t with date d (dates are unique)
RowAt(t, d) == t.rows[CHOOSE i \in 1..Len(t.rows) : t.rows[i].index = d]

\* a variant with how="left": only the dates of trading_days_df
Merge_left(trading_days_df, factor_data) ==
    LET keys == SortedDays(Range(trading_days_df))
    IN  [i \in 1..Len(keys) |->
            [index |-> keys[i],
             vals |-> IF keys[i] \in IndexOf(factor_data)
                      THEN RowAt(factor_data, keys[i]).vals
                      ELSE NaNs(Len(factor_data.columns))]]

\* trading_days_df.merge(factor_data, on="index", how="outer"): one row per date of
\* either side, sorted by date, the cells of a date missing from factor_data NaN
Merge(trading_days_df, factor_data) ==
    LET keys == SortedDays(Range(trading_days_df) \cup IndexOf(factor_data))
    IN  [i \in 1..Len(keys) |->
            [index |-> keys[i],
             vals |-> IF keys[i] \in IndexOf(factor_data)
                      THEN RowAt(factor_data, keys[i]).vals
                      ELSE NaNs(Len(factor_data.columns))]]

\* a variant with ffill(limit=1): only the row just above fills a cell
FfillCell_limit1(rows, i, k) ==
    IF ~IsNaN(rows[i].vals[k]) \/ i = 1 THEN rows[i].vals[k] ELSE rows[i - 1].vals[k]

\* the cell of row i, column k after ffill(): itself, or for NaN the filled cell above
RECURSIVE FfillCell(_, _, _)
FfillCell(rows, i, k) ==
    IF ~IsNaN(rows[i].vals[k]) \/ i = 1 THEN rows[i].vals[k] ELSE FfillCell(rows, i - 1, k)

\* a variant that fills with the limit-1 cell
Ffill_limit1(rows) ==
    [i \in 1..Len(rows) |->
        [index |-> rows[i].index,
         vals |-> [k \in 1..Len(rows[i].vals) |-> FfillCell_limit1(rows, i, k)]]]

\* extended.ffill()
Ffill(rows) ==
    [i \in 1..Len(rows) |->
        [index |-> rows[i].index,
         vals |-> [k \in 1..Len(rows[i].vals) |-> FfillCell(rows, i, k)]]]

SeqMin(s) == CHOOSE x \in Range(s) : \A y \in Range(s) : x <= y
SeqMax(s) == CHOOSE x \in Range(s) : \A y \in Range(s) : x >= y

\* a variant that keeps the rows before the first trading day
Trim_upper(rows, trading_days_df) ==
    LET Kept(r) == r.index <= SeqMax(trading_days_df)
    IN  SelectSeq(rows, Kept)

\* extended[(index >= min of trading days) & (index <= max of trading days)]
Trim(rows, trading_days_df) ==
    LET Kept(r) == r.index >= SeqMin(trading_days_df) /\ r.index <= SeqMax(trading_days_df)
    IN  SelectSeq(rows, Kept)

\* FinLabFactorFetcher.extend_factor_data
extend_factor_data(factor_data, trading_days) ==
    LET trading_days_df == trading_days
        extended == Ffill(Merge(trading_days_df, factor_data))
    IN  Table(factor_data.columns, Trim(extended, trading_days_df))

\* the quarterly tables: some days disclosed, each cell a value or NaN
FactorTables ==
    {Table(Instruments,
           [i \in 1..Cardinality(S) |->
               [index |-> SortedDays(S)[i],
                vals |-> [k \in 1..Len(Instruments) |->
                            IF f[SortedDays(S)[i]][k] THEN Cell(SortedDays(S)[i], k) ELSE NaN]]])
       : <<S, f>> \in {<<S, f>> \in (SUBSET Days) \X [Days -> [1..Len(Instruments) -> BOOLEAN]] :
                          \A d \in Days \ S : \A k \in 1..Len(Instruments) : f[d][k]}}

\* the trading-day indexes: non-empty, strictly increasing
TradingDays == {SortedDays(S) : S \in (SUBSET Days) \ {{}}}

ExpandInit ==
    /\ fx_factor \in FactorTables
    /\ fx_days = None /\ fx_out = NoTable /\ fx_again = NoTable
    /\ QcIdle /\ RankIdle /\ CwrIdle /\ GfIdle /\ RtIdle /\ LateIdle

\* a call extend_factor_data(fx_factor, trading_days)
ExtendFactorData ==
    /\ fx_out = NoTable
    /\ \E trading_days \in TradingDays :
          /\ fx_days' = trading_days
          /\ fx_out' = extend_factor_data(fx_factor, trading_days)
    /\ UNCHANGED <<fx_factor, fx_again, qcVars, rankVars, cwrVars, gfVars, rtVars, lateVars>>

\* a second call, on the table the first call returned and the same trading days
ExtendAgain ==
    /\ fx_out # NoTable /\ fx_again = NoTable
    /\ fx_again' = extend_factor_data(fx_out, fx_days)
    /\ UNCHANGED <<fx_factor, fx_days, fx_out, qcVars, rankVars, cwrVars, gfVars, rtVars, lateVars>>

ExpandNext == ExtendFactorData \/ ExtendAgain

SpecExpand == ExpandInit /\ [][ExpandNext]_vars

(***************************************************************************)
(* Factor expander: properties                                             *)
(***************************************************************************)
Expanded == fx_out # NoTable

\* the dates the expansion is to keep
Retained(factor_data, trading_days) ==
    {d \in Range(trading_days) \cup IndexOf(factor_data) :
        d >= SeqMin(trading_days) /\ d <= SeqMax(trading_days)}

\* C14: the dates of extend_factor_data's output are exactly (trading_days united with
\* the factor dates) within [min(trading_days), max(trading_days)], each in exactly
\* one row: every trading day appears, no row lies outside the range, and the row
\* count is the number of retained dates.
C14_ExpansionDateSet ==
    Expanded =>
        /\ IndexOf(fx_out) = Retained(fx_factor, fx_days)
        /\ \A i, j \in 1..Len(fx_out.rows) : fx_out.rows[i].index = fx_out.rows[j].index => i = j
        /\ Range(fx_days) \subseteq IndexOf(fx_out)
        /\ \A i \in 1..Len(fx_out.rows) :
              fx_out.rows[i].index >= SeqMin(fx_days) /\ fx_out.rows[i].index <= SeqMax(fx_days)
        /\ Len(fx_out.rows) = Cardinality(Retained(fx_factor, fx_days))

\* a factor date before the first trading day is trimmed, one between two trading
\* days is kept
C14_Witness ==
    /\ Expanded
    /\ IndexOf(fx_factor) = {1, 3}
    /\ fx_days = <<2, 3>>
    /\ IndexOf(fx_out) = {2, 3}

\* the factor dates up to d on which column k holds a value
KnownUpTo(factor_data, k, d) ==
    {q \in IndexOf(factor_data) : q <= d /\ ~IsNaN(RowAt(factor_data, q).vals[k])}

SetMax(S) == CHOOSE x \in S : \A y \in S : x >= y

\* C15: for every output date d and instrument, the value is the factor table's value
\* at the latest factor date q <= d with a non-null value (dates before the first
\* trading day count), and null exactly when there is none; never a later date's value.
C15_ForwardFillNoLookAhead ==
    Expanded =>
        \A i \in 1..Len(fx_out.rows) : \A k \in 1..Len(fx_out.columns) :
            LET d == fx_out.rows[i].index
                known == KnownUpTo(fx_factor, k, d)
            IN  IF known = {} THEN IsNaN(fx_out.rows[i].vals[k])
                ELSE fx_out.rows[i].vals[k] = RowAt(fx_factor, SetMax(known)).vals[k]

\* a trading day filled from a factor date before the first trading day, while a
\* later factor date holds another value; the other column has nothing to fill from
C15_Witness ==
    /\ Expanded
    /\ fx_days = <<2, 3>>
    /\ IndexOf(fx_factor) = {1, 3}
    /\ RowAt(fx_factor, 1).vals = <<Cell(1, 1), NaN>>
    /\ RowAt(fx_factor, 3).vals = <<Cell(3, 1), NaN>>
    /\ RowAt(fx_out, 2).vals = <<Cell(1, 1), NaN>>
    /\ RowAt(fx_out, 3).vals = <<Cell(3, 1), NaN>>

\* C17: expanding the expansion again over the same trading days gives the same dates
\* and the same values, null cells included.
C17_ExpansionIdempotent ==
    fx_again # NoTable => (fx_again.columns = fx_out.columns /\ fx_again.rows = fx_out.rows)

\* a table with a trimmed factor date, a two-day gap filled and a leading null
C17_Witness ==
    /\ fx_again # NoTable
    /\ fx_days = <<2, 3>>
    /\ fx_factor.rows = <<[index |-> 1, vals |-> <<Cell(1, 1), NaN>>]>>
    /\ fx_again.rows = <<[index |-> 2, vals |-> <<Cell(1, 1), NaN>>],
                         [index |-> 3, vals |-> <<Cell(1, 1), NaN>>]>>

(***************************************************************************)
(* FinLabFactorFetcher.get_factor_data                                     *)
(***************************************************************************)
\* c in stock_symbols
In(c, stock_symbols) == \E i \in 1..Len(stock_symbols) : stock_symbols[i] = c

\* raw[cols]: the columns named in cols, in that order
Project(raw, cols) ==
    LET at(c) == CHOOSE k \in 1..Len(raw.columns) : raw.columns[k] = c
    IN  Table(cols,
              [i \in 1..Len(raw.rows) |->
                  [index |-> raw.rows[i].index,
                   vals |-> [j \in 1..Len(cols) |-> raw.rows[i].vals[at(cols[j])]]]])

\* if stock_symbols: cols = [c for c in raw.columns if c in stock_symbols];
\*                   raw = raw[cols] if cols else raw
FilterColumns(raw, stock_symbols) ==
    IF stock_symbols # <<>>
    THEN LET Wanted(c) == In(c, stock_symbols)
             cols == SelectSeq(raw.columns, Wanted)
         IN  IF cols # <<>> THEN Project(raw, cols) ELSE raw
    ELSE raw

\* a variant that leaves out the records without a value
Melt_dropna(extended) ==
    LET n == Len(extended.rows)
        all == [j \in 1..(n * Len(extended.columns)) |->
                  Row(extended.rows[((j - 1) % n) + 1].index,
                      extended.columns[((j - 1) \div n) + 1],
                      extended.rows[((j - 1) % n) + 1].vals[((j - 1) \div n) + 1])]
        HasValue(r) == ~IsNaN(r.value)
    IN  SelectSeq(all, HasValue)

\* extended.melt(id_vars="datetime", var_name="asset", value_name="value"): column by
\* column, one record per row
Melt(extended) ==
    LET n == Len(extended.rows)
    IN  [j \in 1..(n * Len(extended.columns)) |->
            Row(extended.rows[((j - 1) % n) + 1].index,
                extended.columns[((j - 1) \div n) + 1],
                extended.rows[((j - 1) % n) + 1].vals[((j - 1) \div n) + 1])]

\* melted.sort_values(["datetime", "asset"]).reset_index(drop=True); the pairs
\* (datetime, asset) are distinct
SortValues(melted) ==
    [p \in 1..Len(melted) |->
        melted[CHOOSE i \in 1..Len(melted) :
                  Cardinality({j \in 1..Len(melted) : KeyLess(Key(melted[j]), Key(melted[i]))})
                      = p - 1]]

\* FinLabFactorFetcher.get_factor_data, provider being the table that
\* data.get(...).deadline() returns
get_factor_data(provider, stock_symbols, trading_days) ==
    LET raw == FilterColumns(provider, stock_symbols)
    IN  IF trading_days = None
        THEN [st |-> "raw", columns |-> raw.columns, rows |-> raw.rows, long |-> <<>>]
        ELSE LET extended == extend_factor_data(raw, trading_days)
                 melted == Melt(extended)
             IN  [st |-> "long", columns |-> <<>>, rows |-> <<>>, long |-> SortValues(melted)]

\* the stock_symbols lists: none, some of the provider's columns, unknown symbols
SymbolLists == {<<>>, <<"A">>, <<"B">>, <<"B", "A">>, <<"C">>, <<"C", "A">>}

GetFactorInit ==
    /\ gf_raw \in FactorTables
    /\ gf_symbols = <<>> /\ gf_days = None /\ gf_out = NoFactorData
    /\ QcIdle /\ RankIdle /\ CwrIdle /\ FxIdle /\ RtIdle /\ LateIdle

\* a call get_factor_data(stock_symbols, factor_name, trading_days)
GetFactorData ==
    /\ gf_out = NoFactorData
    /\ \E stock_symbols \in SymbolLists, trading_days \in TradingDays \cup {None} :
          /\ gf_symbols' = stock_symbols
          /\ gf_days' = trading_days
          /\ gf_out' = get_factor_data(gf_raw, stock_symbols, trading_days)
    /\ UNCHANGED <<gf_raw, qcVars, rankVars, cwrVars, fxVars, rtVars, lateVars>>

SpecGetFactor == GetFactorInit /\ [][GetFactorData]_vars

(***************************************************************************)
(* get_factor_data: properties                                             *)
(***************************************************************************)
\* the instruments of the outcome: columns of the raw table, assets of the long one
InstrumentsOf(out) ==
    Range(out.columns) \cup {out.long[i].asset : i \in 1..Len(out.long)}

LongDates(out) == {out.long[i].datetime : i \in 1..Len(out.long)}

\* the table get_factor_data hands to extend_factor_data
Selected == FilterColumns(gf_raw, gf_symbols)

\* exactly one record for each pair of these dates and these instruments
OneRecordPerPair(long, dates, instruments) ==
    /\ \A d \in dates : \A a \in instruments :
          Cardinality({i \in 1..Len(long) : long[i].datetime = d /\ long[i].asset = a}) = 1
    /\ Len(long) = Cardinality(dates) * Cardinality(instruments)

\* C16 as stated: the long format holds exactly one record per (trading day,
\* instrument): every output date is a trading day and the row count is
\* |trading_days| x |instruments|.
C16_OneRecordPerTradingDay ==
    gf_out.st = "long" =>
        /\ LongDates(gf_out) \subseteq Range(gf_days)
        /\ OneRecordPerPair(gf_out.long, Range(gf_days), Range(Selected.columns))

\* C16 amended: the long format holds exactly one record per (date, instrument) for
\* the retained dates, i.e. the trading days and the factor dates within
\* [min(trading_days), max(trading_days)]; its row count is
\* |retained dates| x |instruments|, and it is sorted by date, then instrument.
C16_OneRecordPerRetainedDate ==
    gf_out.st = "long" =>
        /\ LongDates(gf_out) = Retained(Selected, gf_days)
        /\ OneRecordPerPair(gf_out.long, Retained(Selected, gf_days), Range(Selected.columns))
        /\ \A i, j \in 1..Len(gf_out.long) :
              i < j => KeyLess(Key(gf_out.long[i]), Key(gf_out.long[j]))

\* trading days 1 and 3, a disclosure on day 2: three dates for two instruments
C16_Witness ==
    /\ gf_out.st = "long"
    /\ gf_days = <<1, 3>>
    /\ 2 \in IndexOf(gf_raw)
    /\ gf_symbols = <<>>
    /\ LongDates(gf_out) = {1, 2, 3}
    /\ Len(gf_out.long) = 6

\* C19: whenever stock_symbols is non-empty, every instrument of the result is one of
\* stock_symbols, also when none of them is a column of the provider's table.
C19_OnlyRequestedInstruments ==
    (gf_out.st # "none" /\ gf_symbols # <<>>) =>
        \A a \in InstrumentsOf(gf_out) : In(a, gf_symbols)

(***************************************************************************)
(* utils.retry.run_with_retry                                              *)
(*                                                                         *)
(* The call is followed step by step: entering the loop, one action()      *)
(* call with its except clause, one time.sleep().  rtTrace records the     *)
(* action() and time.sleep() calls in order; an action() call is known by  *)
(* its number id, which also names the value or exception it produced.     *)
(***************************************************************************)
MaxRetries == 3

\* the exception types action may raise, and those given as retry_exceptions
Exceptions == {"ServiceUnavailable", "TooManyRequests", "NotFound", "Forbidden"}
\* a variant that retries every exception
retry_exceptions_all == Exceptions

retry_exceptions == {"ServiceUnavailable", "TooManyRequests"}

\* what one action() call does: return a value or raise
Outcomes == {"value"} \cup Exceptions

ActionCall(out, id) == [ev |-> "action", out |-> out, id |-> id]
SleepCall(attempt) == [ev |-> "sleep", out |-> "", id |-> attempt]

\* the action() calls made so far
Invocations == SelectSeq(rtTrace, LAMBDA e : e.ev = "action")
Sleeps == SelectSeq(rtTrace, LAMBDA e : e.ev = "sleep")

\* a variant that allows one attempt more
total_attempts_more(retries) == retries + 2

\* total_attempts = retries + 1
total_attempts(retries) == retries + 1

\* a variant that sleeps after the last failed attempt as well
LastAttempt_never(attempt, total) == FALSE

\* if attempt >= total_attempts
LastAttempt(attempt, total) == attempt >= total

Returned(id) == [st |-> "returned", id |-> id]
Raised(id) == [st |-> "raised", id |-> id]

RetryInit ==
    /\ rtRetries \in (0 - 1)..MaxRetries
    /\ rtPc = "start" /\ rtAttempt = 0 /\ rtTrace = <<>> /\ rtResult = NoOutcome
    /\ QcIdle /\ RankIdle /\ CwrIdle /\ FxIdle /\ GfIdle /\ LateIdle

\* for attempt in range(1, total_attempts + 1): the first iteration, or with an empty
\* range the end of the function, which returns None (id 0: no action() call)
EnterLoop ==
    /\ rtPc = "start"
    /\ IF total_attempts(rtRetries) >= 1
       THEN rtPc' = "try" /\ rtAttempt' = 1 /\ rtResult' = rtResult
       ELSE rtPc' = "done" /\ rtAttempt' = rtAttempt /\ rtResult' = Returned(0)
    /\ UNCHANGED <<rtRetries, rtTrace, qcVars, rankVars, cwrVars, fxVars, gfVars, lateVars>>

\* try: return action()  except retry_exceptions: raise on the last attempt,
\* otherwise go on to the sleep; any other exception propagates
Attempt ==
    /\ rtPc = "try"
    /\ \E out \in Outcomes :
          LET id == Len(Invocations) + 1
          IN  /\ rtTrace' = Append(rtTrace, ActionCall(out, id))
              /\ IF out = "value"
                 THEN rtPc' = "done" /\ rtResult' = Returned(id)
                 ELSE IF out \notin retry_exceptions
                 THEN rtPc' = "done" /\ rtResult' = Raised(id)
                 ELSE IF LastAttempt(rtAttempt, total_attempts(rtRetries))
                 THEN rtPc' = "done" /\ rtResult' = Raised(id)
                 ELSE rtPc' = "sleep" /\ rtResult' = rtResult
    /\ UNCHANGED <<rtRetries, rtAttempt, qcVars, rankVars, cwrVars, fxVars, gfVars, lateVars>>

\* time.sleep(delay), then the next iteration of the loop
Sleep ==
    /\ rtPc = "sleep"
    /\ rtTrace' = Append(rtTrace, SleepCall(rtAttempt))
    /\ rtAttempt' = rtAttempt + 1
    /\ rtPc' = "try"
    /\ UNCHANGED <<rtRetries, rtResult, qcVars, rankVars, cwrVars, fxVars, gfVars, lateVars>>

RetryNext == EnterLoop \/ Attempt \/ Sleep

SpecRetry == RetryInit /\ [][RetryNext]_vars

(***************************************************************************)
(* run_with_retry: properties                                              *)
(***************************************************************************)
Last(s) == s[Len(s)]

AllRetryable(calls) == \A i \in 1..Len(calls) : calls[i].out \in retry_exceptions

\* what C20 says of a state of the call
BoundedRetryState ==
    rtRetries >= 0 =>
        /\ Len(Invocations) <= rtRetries + 1
        /\ \A i \in 1..Len(Invocations) : Invocations[i].id = i
        \* k retryable failures, then a success: that value is returned
        /\ (Invocations # <<>> /\ Last(Invocations).out = "value") =>
              /\ rtPc = "done"
              /\ rtResult = Returned(Len(Invocations))
              /\ Last(rtTrace) = Last(Invocations)
              /\ AllRetryable(SubSeq(Invocations, 1, Len(Invocations) - 1))
        \* retries + 1 retryable failures: the last one's exception is raised
        /\ (Len(Invocations) = rtRetries + 1 /\ AllRetryable(Invocations)) =>
              /\ rtPc = "done"
              /\ rtResult = Raised(rtRetries + 1)
              /\ Last(rtTrace) = Last(Invocations)

\* C20: for retries >= 0 action is invoked at most retries + 1 times; k retryable
\* failures followed by a success return that attempt's value and action is not
\* invoked again; retries + 1 retryable failures raise the last attempt's exception.
C20_BoundedRetry ==
    /\ []BoundedRetryState
    /\ [][rtPc = "done" => (rtTrace' = rtTrace /\ rtResult' = rtResult)]_vars

\* retries = 2: two retryable failures, each followed by a sleep, then the value of
\* the third call is returned
C20_Witness ==
    /\ rtRetries = 2 /\ rtPc = "done"
    /\ Len(Invocations) = 3 /\ Len(rtTrace) = 5
    /\ Invocations[1].out = "ServiceUnavailable" /\ Invocations[2].out = "TooManyRequests"
    /\ rtResult = Returned(3)

\* event i of the trace is a sleep between a failed retryable attempt and the next
\* attempt (the next attempt may not have started yet)
SleepBetweenAttempts(i) ==
    /\ i > 1
    /\ rtTrace[i - 1].ev = "action" /\ rtTrace[i - 1].out \in retry_exceptions
    /\ i < Len(rtTrace) => rtTrace[i + 1].ev = "action"
    /\ i = Len(rtTrace) => rtPc = "try"

C30_ActionAlwaysRuns ==
    rtPc = "done" => (Invocations # <<>> /\ rtResult.id = Len(Invocations))

(***************************************************************************)
(* utils.google_cloud_storage.upload_file / download_file                  *)
(*                                                                         *)
(* Both run the blob operation through run_with_retry with the default     *)
(* retries and RETRYABLE_EXCEPTIONS, and handle NotFound and Forbidden.    *)
(***************************************************************************)
\* retries: int = 3
DefaultRetries == 3

ErrorLog(exc) == [level |-> "error", exc |-> exc]

\* a call of upload_file or download_file, or a direct call of run_with_retry
UploadInit ==
    /\ \/ /\ upOp \in {"upload", "download"} /\ upPc = "calling"
          /\ rtRetries = DefaultRetries
       \/ /\ upOp = "" /\ upPc = "idle"
          /\ rtRetries \in (0 - 1)..MaxRetries
    /\ upLog = <<>> /\ upResult = NoOutcome
    /\ rtPc = "start" /\ rtAttempt = 0 /\ rtTrace = <<>> /\ rtResult = NoOutcome
    /\ QcIdle /\ RankIdle /\ CwrIdle /\ FxIdle /\ GfIdle
    /\ DlIdle /\ EtlIdle /\ BqIdle /\ ScIdle

\* the end of the try statement around run_with_retry: except NotFound and except
\* Forbidden log an error and re-raise; any other exception propagates; without an
\* exception the helper returns None
GcsExcept ==
    /\ upPc = "calling" /\ rtPc = "done"
    /\ upPc' = "done"
    /\ IF rtResult.st = "raised"
       THEN /\ upResult' = Raised(rtResult.id)
            /\ upLog' = IF Invocations[rtResult.id].out \in {"NotFound", "Forbidden"}
                        THEN Append(upLog, ErrorLog(Invocations[rtResult.id].out))
                        ELSE upLog
       ELSE upResult' = Returned(0) /\ upLog' = upLog
    /\ UNCHANGED <<upOp, qcVars, rankVars, cwrVars, fxVars, gfVars, rtVars,
                   dlVars, etlVars, bqVars, scVars>>

UploadNext == EnterLoop \/ Attempt \/ Sleep \/ GcsExcept

SpecUpload == UploadInit /\ [][UploadNext]_vars

\* C22: an attempt that raises an exception outside retry_exceptions ends
\* run_with_retry at once: that exception is raised, with no sleep and no further
\* action() call; so upload_file and download_file make exactly one attempt when the
\* blob operation raises NotFound or Forbidden, log one error and re-raise it.
C22_NonRetryableNotRetried ==
    /\ \A i \in 1..Len(Invocations) :
          Invocations[i].out \in {"NotFound", "Forbidden"} =>
              /\ i = Len(Invocations)
              /\ Last(rtTrace) = Invocations[i]
              /\ rtPc = "done" /\ rtResult = Raised(i)
    /\ (Invocations # <<>> /\ Invocations[1].out \in {"NotFound", "Forbidden"}) =>
          /\ Len(Invocations) = 1 /\ Sleeps = <<>>
          /\ upPc = "done" =>
                (upLog = <<ErrorLog(Invocations[1].out)>> /\ upResult = Raised(1))
    /\ upPc = "done" =>
          /\ rtPc = "done"
          /\ (rtResult.st = "raised") = (upResult.st = "raised")
          /\ rtResult.st = "raised" => upResult.id = rtResult.id
          /\ Len(upLog) <= 1

\* upload_file whose first blob operation raised Forbidden: one call, no sleep, one
\* error record, Forbidden re-raised
C22_Witness ==
    /\ upOp = "upload" /\ upPc = "done"
    /\ rtTrace = <<ActionCall("Forbidden", 1)>>
    /\ upLog = <<ErrorLog("Forbidden")>>
    /\ upResult = Raised(1)

(***************************************************************************)
(* run_with_retry: the duration passed to time.sleep                       *)
(*                                                                         *)
(* initial_delay, max_delay and backoff are whole seconds, jitter and the  *)
(* draw of random.uniform(-jitter, jitter) are hundredths, and the         *)
(* duration is held in hundredths of a second, so the products are exact.  *)
(***************************************************************************)
RECURSIVE Pow(_, _)
Pow(b, n) == IF n = 0 THEN 1 ELSE b * Pow(b, n - 1)

Min2(a, b) == IF a <= b THEN a ELSE b
Max2(a, b) == IF a >= b THEN a ELSE b

\* delay = min(max_delay, initial_delay * (backoff ** (attempt - 1))), in seconds
BaseDelay(a) == Min2(a.max_delay, a.initial_delay * Pow(a.backoff, a.attempt - 1))

\* the values random.uniform(-jitter, jitter) may return: both ends and the middle
UniformDraws(jitter) == {0 - jitter, 0, jitter}

\* delay *= 1 + u (only if jitter > 0); delay = max(0.0, delay); in hundredths
SleepDuration(a, u) ==
    Max2(0, IF a.jitter > 0 THEN BaseDelay(a) * (100 + u) ELSE BaseDelay(a) * 100)

DelayArgs ==
    [initial_delay : {1, 2}, max_delay : {1, 3}, backoff : {1, 2, 3},
     attempt : 1..MaxRetries, jitter : {0, 20, 100}]

DelayInit ==
    /\ dlArgs \in DelayArgs
    /\ dlDelay = NoDelay
    /\ QcIdle /\ RankIdle /\ CwrIdle /\ FxIdle /\ GfIdle /\ RtIdle
    /\ UpIdle /\ EtlIdle /\ BqIdle /\ ScIdle

\* lines 72-75 and 85 of the except clause: the duration handed to time.sleep
ComputeDelay ==
    /\ dlDelay = NoDelay
    /\ \E u \in UniformDraws(dlArgs.jitter) : dlDelay' = SleepDuration(dlArgs, u)
    /\ UNCHANGED <<dlArgs, qcVars, rankVars, cwrVars, fxVars, gfVars, rtVars,
                   upVars, etlVars, bqVars, scVars>>

SpecDelay == DelayInit /\ [][ComputeDelay]_vars

\* C24: every duration passed to time.sleep is >= 0 and <= max_delay, for all
\* initial_delay, backoff, attempt and jitter in [0, 1]; before jitter the n-th retry
\* delay is min(max_delay, initial_delay * backoff^(n-1)).
C24_DelayCap ==
    dlDelay # NoDelay =>
        /\ dlDelay >= 0
        /\ dlDelay <= 100 * dlArgs.max_delay
        /\ dlArgs.jitter = 0 => dlDelay = 100 * BaseDelay(dlArgs)

(***************************************************************************)
(* scripts.run_etl_pipeline.main                                           *)
(*                                                                         *)
(* main is followed step by step.  etlLog records every step executed for  *)
(* a market-value date with its outcome: "ok", or the operation of the     *)
(* step that raised.                                                       *)
(***************************************************************************)
MaxDates == 2

Step(date, step, out) == [date |-> date, step |-> step, out |-> out]

Exit(code) == [st |-> "returned", code |-> code]

\* an exception that leaves main
Uncaught == [st |-> "raised", code |-> 0]

\* the operations of a step that may raise
IngestionOps(skip_gcs) ==
    {"fetch_daily_ohlcv_data", "to_parquet"} \cup (IF skip_gcs THEN {} ELSE {"upload_file"})
TransformationOps(skip_gcs) ==
    {"process_ohlcv_data", "empty", "to_parquet"} \cup (IF skip_gcs THEN {} ELSE {"upload_file"})
LoadingOps == {"load_to_bigquery"}

EtlInit ==
    /\ etlArgs \in [dates : 0..MaxDates, start : BOOLEAN, end : BOOLEAN, skip_gcs : BOOLEAN]
    /\ etlPc = "start" /\ etlIdx = 0 /\ etlLog = <<>> /\ etlResult = NoExit
    /\ QcIdle /\ RankIdle /\ CwrIdle /\ FxIdle /\ GfIdle /\ RtIdle
    /\ DlIdle /\ UpIdle /\ BqIdle /\ ScIdle

etlOthers == <<qcVars, rankVars, cwrVars, fxVars, gfVars, rtVars, dlVars, upVars, bqVars, scVars>>

\* if not market_value_dates or not start_date or not end_date: return 1
CheckParams ==
    /\ etlPc = "start"
    /\ IF etlArgs.dates = 0 \/ ~etlArgs.start \/ ~etlArgs.end
       THEN etlPc' = "done" /\ etlResult' = Exit(1)
       ELSE etlPc' = "setup" /\ etlResult' = etlResult
    /\ UNCHANGED <<etlArgs, etlIdx, etlLog, etlOthers>>

\* the directories and check_gcp_environment, outside any try: an exception leaves
\* main; otherwise the loop starts with the first date
Setup ==
    /\ etlPc = "setup"
    /\ \/ etlPc' = "universe" /\ etlIdx' = 1 /\ etlResult' = etlResult
       \/ etlPc' = "done" /\ etlIdx' = etlIdx /\ etlResult' = Uncaught
    /\ UNCHANGED <<etlArgs, etlLog, etlOthers>>

\* finlab_login and fetch_top_stocks_universe stand outside the try statement
UniverseFailure == Uncaught

\* STEP 1 - A: FinLabFetcher.finlab_login() and fetch_top_stocks_universe(...)
FetchUniverse ==
    /\ etlPc = "universe"
    /\ \E out \in {"ok", "finlab_login", "fetch_top_stocks_universe"} :
          /\ etlLog' = Append(etlLog, Step(etlIdx, "Universe", out))
          /\ IF out = "ok"
             THEN etlPc' = "ingestion" /\ etlResult' = etlResult
             ELSE etlPc' = "done" /\ etlResult' = UniverseFailure
    /\ UNCHANGED <<etlArgs, etlIdx, etlOthers>>

\* STEP 1 - B in its try statement: except Exception: return 1
Ingestion ==
    /\ etlPc = "ingestion"
    /\ \E out \in {"ok"} \cup IngestionOps(etlArgs.skip_gcs) :
          /\ etlLog' = Append(etlLog, Step(etlIdx, "Ingestion", out))
          /\ IF out = "ok"
             THEN etlPc' = "transformation" /\ etlResult' = etlResult
             ELSE etlPc' = "done" /\ etlResult' = Exit(1)
    /\ UNCHANGED <<etlArgs, etlIdx, etlOthers>>

\* STEP 2 in its try statement: except Exception: return 1
Transformation ==
    /\ etlPc = "transformation"
    /\ \E out \in {"ok"} \cup TransformationOps(etlArgs.skip_gcs) :
          /\ etlLog' = Append(etlLog, Step(etlIdx, "Transformation", out))
          /\ IF out = "ok"
             THEN etlPc' = "loading" /\ etlResult' = etlResult
             ELSE etlPc' = "done" /\ etlResult' = Exit(1)
    /\ UNCHANGED <<etlArgs, etlIdx, etlOthers>>

\* STEP 3 in its try statement, then the next date or return 0
Loading ==
    /\ etlPc = "loading"
    /\ \E out \in {"ok"} \cup LoadingOps :
          /\ etlLog' = Append(etlLog, Step(etlIdx, "Loading", out))
          /\ IF out # "ok"
             THEN etlPc' = "done" /\ etlIdx' = etlIdx /\ etlResult' = Exit(1)
             ELSE IF etlIdx < etlArgs.dates
             THEN etlPc' = "universe" /\ etlIdx' = etlIdx + 1 /\ etlResult' = etlResult
             ELSE etlPc' = "done" /\ etlIdx' = etlIdx /\ etlResult' = Exit(0)
    /\ UNCHANGED <<etlArgs, etlOthers>>

EtlNext == CheckParams \/ Setup \/ FetchUniverse \/ Ingestion \/ Transformation \/ Loading

SpecEtl == EtlInit /\ [][EtlNext]_vars

\* the log of a run in which every date completed its steps in order
RECURSIVE CompleteLog(_)
CompleteLog(n) ==
    IF n = 0 THEN <<>>
    ELSE CompleteLog(n - 1) \o <<Step(n, "Universe", "ok"), Step(n, "Ingestion", "ok"),
                                 Step(n, "Transformation", "ok"), Step(n, "Loading", "ok")>>

\* C23: main returns 1 whenever a step of a market-value date raises (Ingestion, which
\* starts with the FinLab login and universe fetch, Transformation or Loading), and no
\* step is executed after the failure; it returns 0 only if every date completed
\* Ingestion, Transformation and Loading in order; with no market-value date or a
\* missing start or end it returns 1 before any step.
C23_ReturnCodeFailFast ==
    /\ \A i \in 1..Len(etlLog) :
          etlLog[i].out # "ok" => (i = Len(etlLog) /\ etlPc = "done" /\ etlResult = Exit(1))
    /\ etlResult = Exit(0) => etlLog = CompleteLog(etlArgs.dates)
    /\ (etlPc = "done" /\ (etlArgs.dates = 0 \/ ~etlArgs.start \/ ~etlArgs.end)) =>
          (etlResult = Exit(1) /\ etlLog = <<>>)

(***************************************************************************)
(* utils.google_cloud_bigquery.load_to_bigquery                            *)
(*                                                                         *)
(* The call is followed operation by operation.  Every BigQuery operation  *)
(* runs through run_with_retry and ends "ok", with NotFound, or with       *)
(* another exception ("error": a non-retryable one, or a retryable one on  *)
(* the last attempt).  bqTrace records the operations and their outcome;   *)
(* bqPending names the operation whose exception is being propagated.      *)
(***************************************************************************)
Modes == {"upsert", "append", "truncate"}

OpOutcomes == {"ok", "NotFound", "error"}

Op(op, out) == [op |-> op, out |-> out]

Loaded == [st |-> "returned", op |-> ""]
LoadError(op) == [st |-> "raised", op |-> op]

bqOthers == <<qcVars, rankVars, cwrVars, fxVars, gfVars, rtVars, dlVars, upVars, etlVars, scVars>>

BqInit ==
    /\ bqMode \in Modes
    /\ bqPc = "start" /\ bqStaging = FALSE /\ bqTrace = <<>>
    /\ bqPending = "" /\ bqResult = NoLoad
    /\ QcIdle /\ RankIdle /\ CwrIdle /\ FxIdle /\ GfIdle /\ RtIdle
    /\ DlIdle /\ UpIdle /\ EtlIdle /\ ScIdle

\* one operation op: ok leads to next, NotFound to missing, any
\* other exception (and NotFound where missing is "raise") to except Exception:
\* logger.exception and raise, i.e. on to the finally block with the exception pending
Operation(op, next, missing) ==
    /\ \E out \in OpOutcomes :
          /\ bqTrace' = Append(bqTrace, Op(op, out))
          /\ IF out = "ok" THEN bqPc' = next /\ bqPending' = bqPending
             ELSE IF out = "NotFound" /\ missing # "raise"
             THEN bqPc' = missing /\ bqPending' = bqPending
             ELSE bqPc' = "finally" /\ bqPending' = op
    /\ UNCHANGED <<bqMode, bqStaging, bqResult, bqOthers>>

\* project_id = os.getenv("GCP_PROJECT_ID"); raise ValueError if it is not set
GetProject ==
    /\ bqPc = "start"
    /\ \/ bqPc' = "get_dataset" /\ bqPending' = bqPending
       \/ bqPc' = "finally" /\ bqPending' = "GCP_PROJECT_ID"
    /\ UNCHANGED <<bqMode, bqStaging, bqTrace, bqResult, bqOthers>>

GetDataset ==
    /\ bqPc = "get_dataset"
    /\ Operation("get_dataset", "branch", "create_dataset")

CreateDataset ==
    /\ bqPc = "create_dataset"
    /\ Operation("create_dataset", "branch", "raise")

\* if if_exists != 'upsert': the parquet path; else staging_table_ref is created
Branch ==
    /\ bqPc = "branch"
    /\ IF bqMode # "upsert"
       THEN bqPc' = "load_parquet" /\ bqStaging' = bqStaging
       ELSE bqPc' = "load_staging" /\ bqStaging' = TRUE
    /\ UNCHANGED <<bqMode, bqTrace, bqPending, bqResult, bqOthers>>

\* run_with_retry(_write_and_load); return
LoadParquet ==
    /\ bqPc = "load_parquet"
    /\ Operation("load_table_from_file", "finally", "raise")

LoadStaging ==
    /\ bqPc = "load_staging"
    /\ Operation("load_table_from_dataframe", "get_table", "raise")

\* try: get_table, MERGE  except NotFound: copy the staging table
GetTable ==
    /\ bqPc = "get_table"
    /\ Operation("get_table", "merge", "copy")

Merge_ ==
    /\ bqPc = "merge"
    /\ Operation("merge", "delete", "copy")

CopyTable ==
    /\ bqPc = "copy"
    /\ Operation("copy_table", "delete", "raise")

\* line 207: delete_table(staging_table_ref), still inside the try statement
DeleteStaging ==
    /\ bqPc = "delete"
    /\ Operation("delete_table", "finally", "raise")

\* a variant that cleans up only when the main flow raised nothing
NeedsCleanup_onsuccess(staging, pending) == staging /\ pending = ""

\* finally: if staging_table_ref is not None
NeedsCleanup(staging, pending) == staging

\* the finally block: the cleanup delete_table, whose failure is only a warning, and
\* the end of the call: the pending exception is raised, or None returned
Finally ==
    /\ bqPc = "finally"
    /\ IF NeedsCleanup(bqStaging, bqPending)
       THEN \E out \in OpOutcomes : bqTrace' = Append(bqTrace, Op("cleanup_delete_table", out))
       ELSE bqTrace' = bqTrace
    /\ bqPc' = "done"
    /\ bqResult' = IF bqPending # "" THEN LoadError(bqPending) ELSE Loaded
    /\ UNCHANGED <<bqMode, bqStaging, bqPending, bqOthers>>

BqNext ==
    \/ GetProject \/ GetDataset \/ CreateDataset \/ Branch \/ LoadParquet
    \/ LoadStaging \/ GetTable \/ Merge_ \/ CopyTable \/ DeleteStaging \/ Finally

SpecBigQuery == BqInit /\ [][BqNext]_vars

(***************************************************************************)
(* load_to_bigquery: properties                                            *)
(***************************************************************************)
Did(op, outs) == \E i \in 1..Len(bqTrace) : bqTrace[i].op = op /\ bqTrace[i].out \in outs

DeleteAttempted == Did("delete_table", OpOutcomes) \/ Did("cleanup_delete_table", OpOutcomes)

StagingOps ==
    {"load_table_from_dataframe", "get_table", "merge", "copy_table",
     "delete_table", "cleanup_delete_table"}

\* C25: in upsert mode, once the staging table reference exists, every way the call
\* ends is preceded by at least one delete_table attempt on the staging table; with
\* append or truncate no staging table is ever created or deleted.
C25_StagingCleanupAttempted ==
    /\ (bqPc = "done" /\ bqStaging) => DeleteAttempted
    /\ bqMode \in {"append", "truncate"} =>
          (~bqStaging /\ \A i \in 1..Len(bqTrace) : bqTrace[i].op \notin StagingOps)
    /\ bqStaging => bqMode = "upsert"

\* the staging load failed and the finally block still tried to delete the table
C25_Witness ==
    /\ bqPc = "done" /\ bqMode = "upsert" /\ bqStaging
    /\ Did("load_table_from_dataframe", {"error"})
    /\ ~Did("delete_table", OpOutcomes)
    /\ Did("cleanup_delete_table", OpOutcomes)
    /\ bqResult = LoadError("load_table_from_dataframe")

MainFlowSucceeded ==
    /\ Did("load_table_from_dataframe", {"ok"})
    /\ Did("merge", {"ok"}) \/ Did("copy_table", {"ok"})

\* C26: in upsert mode, when the staging load and the MERGE (or the copy into a
\* missing target) succeeded, a failure to delete the staging table never makes the
\* call raise; and when the main flow failed, a cleanup failure never replaces the
\* exception that is propagated.
C26_CleanupFailureOnlyWarns ==
    bqPc = "done" =>
        /\ MainFlowSucceeded => bqResult = Loaded
        /\ bqResult.st = "raised" => bqResult.op # "cleanup_delete_table"
        /\ bqPending # "" => bqResult = LoadError(bqPending)

(***************************************************************************)
(* Weighted rank combiner on rank tables that hold the sentinel 0          *)
(***************************************************************************)
\* two instruments on one date, each with a value or none
SentinelKeys == <<<<1, 1>>, <<1, 2>>>>
SentinelValues == {NaN, Num(1), Num(2)}

\* the rank table rank_stocks_by_factor makes of the values f: rank 0 for NaN
SentinelTable(f, ascending) ==
    LET t == rank_stocks_by_factor(
                 [i \in 1..Len(SentinelKeys) |->
                     Row(SentinelKeys[i][1], AssetOrder[SentinelKeys[i][2]], f[i])],
                 ascending)
    IN  [i \in 1..Len(t) |->
            [datetime |-> t[i].datetime, asset |-> t[i].asset, rank |-> Num(t[i].rank)]]

SentinelTables ==
    {SentinelTable(f, asc) : f \in [1..Len(SentinelKeys) -> SentinelValues], asc \in BOOLEAN}

SentinelInit ==
    /\ ranked_dfs \in SeqsUpTo(SentinelTables, MaxTables)
    /\ weights = <<>> /\ cwr_corr = TRUE /\ cwr = NoCwr
    /\ QcIdle /\ RankIdle /\ OthersIdle

SpecCombineSentinel == SentinelInit /\ [][CalculateWeightedRank]_vars

\* pair k carries the sentinel in some table
Unranked(k) ==
    \E n \in 1..Len(ranked_dfs) :
        k \in TableKeys(ranked_dfs[n]) /\ ranked_dfs[n][RankIn(ranked_dfs[n], k)].rank = Num(0)

\* C27: calculate_weighted_rank never outputs weighted_rank 0; a (date, instrument)
\* with the sentinel rank 0 in some input tables, present in all of them, survives the
\* join, adds 0 * weight to its score and gets a weighted_rank >= 1 like any other.
C27_SentinelThroughCombiner ==
    cwr.st = "ok" =>
        /\ TableKeys(cwr.rows) = InEveryTable
        /\ \A i \in 1..Len(cwr.rows) :
              LET r == cwr.rows[i]
                  t == rank_stocks_by_factor(ScoresOn(r.datetime), cwr_corr)
              IN  /\ r.weighted_rank >= 2
                  /\ \E j \in 1..Len(t) : t[j].asset = r.asset /\ t[j].rank = r.weighted_rank

\* A is unranked in the first table and ranked in the second; with weights 1, 1 it
\* scores less than B and gets rank 1
C27_Witness ==
    /\ cwr.st = "ok" /\ Len(ranked_dfs) = 2 /\ weights = <<1, 1>> /\ cwr_corr
    /\ ranked_dfs[1][1].rank = Num(0) /\ ranked_dfs[1][2].rank = Num(2)
    /\ ranked_dfs[2][1].rank = Num(2) /\ ranked_dfs[2][2].rank = Num(4)
    /\ Unranked(<<1, "A">>)
    /\ cwr.rows[1].asset = "A" /\ cwr.rows[1].weighted_rank = 2
    /\ cwr.rows[2].asset = "B" /\ cwr.rows[2].weighted_rank = 4

(***************************************************************************)
(* Weighted rank combiner: a second call with the weights scaled           *)
(***************************************************************************)
\* the constants c > 0
Scales == {2, 3}

\* c * w
ScaledWeights(c, w) == [i \in 1..Len(w) |-> c * w[i]]

\* a call of calculate_weighted_rank on the same tables and flag, with weights c * w
CalculateScaled ==
    /\ cwr # NoCwr /\ cwr_scaled = NoCwr
    /\ \E c \in Scales :
          /\ cwr_scale' = c
          /\ cwr_scaled' = calculate_weighted_rank(ranked_dfs, ScaledWeights(c, weights), cwr_corr)
    /\ UNCHANGED <<qcVars, rankVars, cwrVars, fxVars, gfVars, rtVars,
                   dlVars, upVars, etlVars, bqVars>>

ScaleNext == CalculateWeightedRank \/ CalculateScaled

SpecCombineScale == CwrInit /\ [][ScaleNext]_vars

\* C28: for every list of rank tables, weight vector w, direction flag and constant
\* c > 0, the output for weights c * w equals the output for weights w for every
\* (date, instrument).
C28_WeightScaleInvariance ==
    cwr_scaled # NoCwr => (cwr_scaled.st = cwr.st /\ cwr_scaled.rows = cwr.rows)

\* two tables, unequal weights of opposite sign, tripled: the same distinct ranks
C28_Witness ==
    /\ cwr_scaled.st = "ok" /\ cwr_scale = 3
    /\ Len(ranked_dfs) = 2 /\ weights = <<2, 0 - 1>>
    /\ Len(cwr_scaled.rows) = 3
    /\ cwr_scaled.rows[1].weighted_rank # cwr_scaled.rows[2].weighted_rank
    /\ cwr_scaled.rows = cwr.rows

(***************************************************************************)
(* Cross-sectional ranker: the same table ranked in both directions        *)
(***************************************************************************)
\* a call of rank_stocks_by_factor(factor_df, not positive_corr), after the first
RankOpposite ==
    /\ ranked # NotRanked /\ other_ranked = NotRanked
    /\ other_df' = factor_df
    /\ other_ranked' = rank_stocks_by_factor(factor_df, ~positive_corr)
    /\ UNCHANGED <<factor_df, positive_corr, ranked, qcVars, cwrVars, otherVars>>

MirrorNext == RankStocksByFactor \/ RankOpposite

SpecRankMirror == RankInit /\ [][MirrorNext]_vars

\* the records of the date of record i that have a value
ValuedOnDateOf(i) ==
    {j \in 1..Len(factor_df) :
        factor_df[j].datetime = factor_df[i].datetime /\ ~IsNaN(factor_df[j].value)}

\* C29: for every input, every date d with n_d non-null values and every record with
\* a non-null value (ties included), its rank under positive_corr=True plus its rank
\* under positive_corr=False is n_d + 1; a record with a null value has rank 0 under
\* both directions.
C29_DirectionMirror ==
    (ranked # NotRanked /\ other_ranked # NotRanked) =>
        /\ Len(ranked) = Len(factor_df) /\ Len(other_ranked) = Len(factor_df)
        /\ \A i \in 1..Len(factor_df) :
              IF IsNaN(factor_df[i].value)
              THEN ranked[i].rank = 0 /\ other_ranked[i].rank = 0
              ELSE ranked[i].rank + other_ranked[i].rank
                     = 2 * (Cardinality(ValuedOnDateOf(i)) + 1)

\* a date with a tie and a null value: the tied records have rank 1.5 both ways
C29_Witness ==
    /\ ranked # NotRanked /\ other_ranked # NotRanked
    /\ Len(factor_df) = 3
    /\ \A i \in 1..3 : factor_df[i].datetime = 1
    /\ factor_df[1].value = Num(2) /\ factor_df[2].value = NaN /\ factor_df[3].value = Num(2)
    /\ ranked[1].rank = 3 /\ other_ranked[1].rank = 3
    /\ ranked[2].rank = 0 /\ other_ranked[2].rank = 0

====
